---- MODULE Spec2Model ----
(***************************************************************************)
(* Item PDP service: the item use cases (item_usecase.go) running against  *)
(* the PostgreSQL item repository (postgres_item_repository.go) and the    *)
(* items table (migration 001), with the value objects and the entity of   *)
(* the item domain package.                                                *)
(*                                                                         *)
(* Strings are sequences of characters, each a string naming it, so that   *)
(* len (a count of bytes), ToUpper, TrimSpace and the SKU character class  *)
(* are computed, not assumed.                                              *)
(* Money: a float64 dollar amount is kept as an integer number of cents;   *)
(* the request prices drawn below are whole dollars, for which the         *)
(* float64 products and int64 truncations of the code are exact.           *)
(***************************************************************************)
EXTENDS Integers, Sequences, FiniteSets, TLC

\* ------------------------------------------------------------- bounds
\* concurrent request workers
NumWorkers == 2
\* identifiers uuid.New() can hand out in one behaviour
MaxIDs == 2

Workers == 1..NumWorkers
IDs == 1..MaxIDs

\* ---------------------------------------------------- program constants
MinNameLen == 3
MaxUseCasePrice == 999999
MinUseCaseSKULen == 3
MaxUseCaseSKULen == 50
DraftPriceThreshold == 1000
MaxInventoryQuantity == 999999
MaxImageURLLen == 2000
MaxAttributeValueLen == 1000
MinSKULen == 3
MaxSKULen == 20
maxPriceThreshold == 10000
minInventoryLevel == 5
AutoActivateInventory == 100
MaxRepoNameLen == 200
UUIDLen == 36

\* ------------------------------------------------------------- strings
LowerLetters == <<"a","b","c","d","e","f","g","h","i","j","k","l","m",
                  "n","o","p","q","r","s","t","u","v","w","x","y","z">>
UpperLetters == <<"A","B","C","D","E","F","G","H","I","J","K","L","M",
                  "N","O","P","Q","R","S","T","U","V","W","X","Y","Z">>
Digits == {"0","1","2","3","4","5","6","7","8","9"}
Spaces == {" ", "\t", "\n"}

\* Characters outside ASCII, written by their code points: e with acute
\* accent, small and capital, each two bytes long in UTF-8.
SmallEAcute == "U+00E9"
CapitalEAcute == "U+00C9"
TwoByteChars == {SmallEAcute, CapitalEAcute}
LowerCase == LowerLetters \o <<SmallEAcute>>
UpperCase == UpperLetters \o <<CapitalEAcute>>

Range(f) == {f[i] : i \in DOMAIN f}

ToUpperChar(c) ==
    IF \E i \in DOMAIN LowerCase : LowerCase[i] = c
    THEN UpperCase[CHOOSE i \in DOMAIN LowerCase : LowerCase[i] = c]
    ELSE c

ToLowerChar(c) ==
    IF \E i \in DOMAIN UpperCase : UpperCase[i] = c
    THEN LowerCase[CHOOSE i \in DOMAIN UpperCase : UpperCase[i] = c]
    ELSE c

\* len(s): the number of bytes of the string
ByteLen(s) == Len(s) + Cardinality({i \in 1..Len(s) : s[i] \in TwoByteChars})

ToUpper(s) == [i \in 1..Len(s) |-> ToUpperChar(s[i])]
ToLower(s) == [i \in 1..Len(s) |-> ToLowerChar(s[i])]

RECURSIVE TrimLeft(_)
TrimLeft(s) ==
    IF s # <<>> /\ Head(s) \in Spaces THEN TrimLeft(Tail(s)) ELSE s

RECURSIVE TrimRight(_)
TrimRight(s) ==
    IF s # <<>> /\ s[Len(s)] \in Spaces
    THEN TrimRight(SubSeq(s, 1, Len(s) - 1))
    ELSE s

TrimSpace(s) == TrimRight(TrimLeft(s))

\* strings.ReplaceAll(s, " ", "-")
ReplaceSpaces(s) == [i \in 1..Len(s) |-> IF s[i] = " " THEN "-" ELSE s[i]]

Contains(s, c) == \E i \in 1..Len(s) : s[i] = c

Repeat(c, n) == [i \in 1..n |-> c]

\* -------------------------------------------------------------- errors
\* An error value: the innermost message, whether the innermost error is a
\* *DomainError, and the fmt.Errorf("...: %w") contexts wrapped around it,
\* outermost first.
Err(msg, domain) == [msg |-> msg, domain |-> domain, wrap |-> <<>>]
NewDomainError(msg) == Err(msg, TRUE)
PlainError(msg) == Err(msg, FALSE)
Wrap(ctx, e) == [e EXCEPT !.wrap = <<ctx>> \o @]
NoErr == [msg |-> "", domain |-> FALSE, wrap |-> <<>>]
IsErr(e) == e # NoErr

ItemNotFoundErrorOf(id) == NewDomainError("item with ID %s not found")
ItemNotFoundBySKUError == NewDomainError("item with SKU %s not found")

\* ------------------------------------------------------- value objects
\* regexp ^[A-Z0-9-_]+$
SKUCharOK(c) == c \in Range(UpperLetters) \cup Digits \cup {"-", "_"}

validateSKU(sku) ==
    IF sku = <<>> THEN NewDomainError("SKU cannot be empty")
    ELSE IF ByteLen(sku) < MinSKULen \/ ByteLen(sku) > MaxSKULen
         THEN NewDomainError("SKU must be between 3 and 20 characters")
    ELSE IF ~(\A i \in 1..Len(sku) : SKUCharOK(sku[i]))
         THEN NewDomainError("SKU can only contain uppercase letters, numbers, hyphens, and underscores")
    ELSE NoErr

\* NewSKU without the trimming
NewSKUNoTrim(s) ==
    LET sku == ToUpper(s)
        e == validateSKU(sku)
    IN  IF IsErr(e) THEN [val |-> <<>>, err |-> e] ELSE [val |-> sku, err |-> NoErr]

\* NewSKU returns (SKU, error); the SKU is the zero value on error.
NewSKU(s) ==
    LET sku == TrimSpace(ToUpper(s))
        e == validateSKU(sku)
    IN  IF IsErr(e) THEN [val |-> <<>>, err |-> e] ELSE [val |-> sku, err |-> NoErr]

\* NewPrice on an amount given in cents (amount * 100, truncated by int64()).
NormalizeCurrency(currency) == IF currency = <<>> THEN <<"U","S","D">> ELSE ToUpper(currency)

NewPrice(cents, currency) ==
    IF cents < 0
    THEN [val |-> [amount |-> 0, currency |-> <<>>], err |-> NewDomainError("price cannot be negative")]
    ELSE [val |-> [amount |-> cents, currency |-> NormalizeCurrency(currency)], err |-> NoErr]

NewCategoryKeepingSpaces(n) ==
    LET name == TrimSpace(n) IN
    IF name = <<>>
    THEN [val |-> [name |-> <<>>, slug |-> <<>>], err |-> NewDomainError("category name cannot be empty")]
    ELSE [val |-> [name |-> name, slug |-> ToLower(name)], err |-> NoErr]

NewCategory(n) ==
    LET name == TrimSpace(n) IN
    IF name = <<>>
    THEN [val |-> [name |-> <<>>, slug |-> <<>>], err |-> NewDomainError("category name cannot be empty")]
    ELSE [val |-> [name |-> name, slug |-> ToLower(ReplaceSpaces(name))], err |-> NoErr]

NewInventory(q) ==
    IF q < 0
    THEN [val |-> 0, err |-> NewDomainError("inventory quantity cannot be negative")]
    ELSE [val |-> q, err |-> NoErr]

NewImage(url, alt, isPrimary) ==
    IF url = <<>>
    THEN [val |-> [url |-> <<>>, alt |-> <<>>, isPrimary |-> FALSE], err |-> NewDomainError("image URL cannot be empty")]
    ELSE [val |-> [url |-> url, alt |-> alt, isPrimary |-> isPrimary], err |-> NoErr]

\* Status.String()
StatusString(s) ==
    CASE s = "StatusActive" -> <<"a","c","t","i","v","e">>
      [] s = "StatusInactive" -> <<"i","n","a","c","t","i","v","e">>
      [] s = "StatusDraft" -> <<"d","r","a","f","t">>
      [] s = "StatusArchived" -> <<"a","r","c","h","i","v","e","d">>
      [] OTHER -> <<"u","n","k","n","o","w","n">>

StatusFromStringCaseSensitive(str) ==
    CASE str = <<"a","c","t","i","v","e">> -> [val |-> "StatusActive", err |-> NoErr]
      [] str = <<"i","n","a","c","t","i","v","e">> -> [val |-> "StatusInactive", err |-> NoErr]
      [] str = <<"d","r","a","f","t">> -> [val |-> "StatusDraft", err |-> NoErr]
      [] str = <<"a","r","c","h","i","v","e","d">> -> [val |-> "StatusArchived", err |-> NoErr]
      [] OTHER -> [val |-> "StatusActive", err |-> NewDomainError("invalid status: ")]

StatusFromString(str) ==
    LET l == ToLower(str) IN
    CASE l = <<"a","c","t","i","v","e">> -> [val |-> "StatusActive", err |-> NoErr]
      [] l = <<"i","n","a","c","t","i","v","e">> -> [val |-> "StatusInactive", err |-> NoErr]
      [] l = <<"d","r","a","f","t">> -> [val |-> "StatusDraft", err |-> NoErr]
      [] l = <<"a","r","c","h","i","v","e","d">> -> [val |-> "StatusArchived", err |-> NoErr]
      [] OTHER -> [val |-> "StatusActive", err |-> NewDomainError("invalid status: ")]

\* -------------------------------------------------------------- entity
NoItem == [id |-> 0]

\* NewItem refusing a name that is blank after trimming
NewItemTrimming(id, sku, name, description, price, category, now) ==
    IF TrimSpace(name) = <<>>
    THEN [val |-> [id |-> 0], err |-> NewDomainError("item name cannot be empty")]
    ELSE [val |-> [id |-> id, sku |-> sku, name |-> name, description |-> description,
                   price |-> price, category |-> category, inventory |-> 0,
                   images |-> <<>>, attributes |-> <<>>, status |-> "StatusDraft",
                   createdAt |-> now, updatedAt |-> now],
          err |-> NoErr]

\* NewItem: id is the value uuid.New() returns, now the reading of time.Now().
NewItem(id, sku, name, description, price, category, now) ==
    IF name = <<>>
    THEN [val |-> NoItem, err |-> NewDomainError("item name cannot be empty")]
    ELSE [val |-> [id |-> id, sku |-> sku, name |-> name, description |-> description,
                   price |-> price, category |-> category, inventory |-> 0,
                   images |-> <<>>, attributes |-> <<>>, status |-> "StatusDraft",
                   createdAt |-> now, updatedAt |-> now],
          err |-> NoErr]

SetPrice(it, price, now) == [it EXCEPT !.price = price, !.updatedAt = now]
SetInventory(it, inventory, now) == [it EXCEPT !.inventory = inventory, !.updatedAt = now]
\* SetStatus with Archived as a final status
SetStatusGuarded(it, status, now) ==
    IF it.status = "StatusArchived" THEN [it EXCEPT !.updatedAt = now]
    ELSE [it EXCEPT !.status = status, !.updatedAt = now]

SetStatus(it, status, now) == [it EXCEPT !.status = status, !.updatedAt = now]
AddImage(it, image, now) == [it EXCEPT !.images = Append(@, image), !.updatedAt = now]

\* Attributes.Set on the map the item holds: keys and values are trimmed.
AttributesSet(attrs, key, value) ==
    LET k == TrimSpace(key)
        v == TrimSpace(value)
    IN  IF k = <<>>
        THEN [val |-> attrs, err |-> NewDomainError("attribute key cannot be empty")]
        ELSE [val |-> [x \in (DOMAIN attrs) \cup {k} |-> IF x = k THEN v ELSE attrs[x]],
              err |-> NoErr]

\* ---------------------------------------------------------- repository
\* The items table: a function from the ids of its rows to the rows.
USD == <<"U","S","D">>
AllowedCurrencies == {USD, <<"E","U","R">>, <<"G","B","P">>, <<"J","P","Y">>}

\* autoDiscountRules, as percentages
autoDiscountRules ==
    [c \in {<<"e","l","e","c","t","r","o","n","i","c","s">>, <<"b","o","o","k","s">>,
            <<"c","l","o","t","h","i","n","g">>} |->
        CASE c = <<"e","l","e","c","t","r","o","n","i","c","s">> -> 95
          [] c = <<"b","o","o","k","s">> -> 90
          [] OTHER -> 85]

\* int64(cents/100 * pct/100 * 100): the discounted amount, truncated to cents
DiscountCents(cents, pct) == (cents * pct) \div 100

validateItemBusinessRules(itm) ==
    IF itm.price.amount <= 0 THEN PlainError("item price must be positive")
    ELSE IF itm.price.amount > maxPriceThreshold * 100
         THEN PlainError("item price %.2f exceeds maximum threshold %.2f")
    ELSE IF itm.price.currency \notin AllowedCurrencies
         THEN PlainError("unsupported currency: %s")
    ELSE IF ByteLen(itm.name) < MinNameLen
         THEN PlainError("item name must be at least 3 characters")
    ELSE IF ByteLen(itm.name) > MaxRepoNameLen THEN PlainError("item name too long")
    ELSE IF ~Contains(itm.sku, "-") THEN PlainError("SKU must contain at least one hyphen")
    ELSE IF itm.category.name = <<"r","e","s","t","r","i","c","t","e","d">>
         THEN PlainError("restricted category not allowed")
    ELSE IF itm.inventory < 0 THEN PlainError("inventory quantity cannot be negative")
    ELSE NoErr

applyBusinessCorrections(itm, now) ==
    LET a == IF itm.inventory > 0 /\ itm.inventory < minInventoryLevel
             THEN SetInventory(itm, NewInventory(minInventoryLevel).val, now)
             ELSE itm
        b == IF a.price.currency = <<>>
             THEN SetPrice(a, NewPrice(a.price.amount, USD).val, now)
             ELSE a
    IN  IF b.inventory > AutoActivateInventory /\ b.status = "StatusDraft"
        THEN SetStatus(b, "StatusActive", now)
        ELSE b

\* The auto-discount step of Save.
applyAutoDiscount(itm, now) ==
    IF itm.category.name \in DOMAIN autoDiscountRules
    THEN SetPrice(itm,
                  NewPrice(DiscountCents(itm.price.amount, autoDiscountRules[itm.category.name]),
                           itm.price.currency).val,
                  now)
    ELSE itm

\* The row INSERT and UPDATE write for an item.
ItemRow(itm) ==
    [sku |-> itm.sku, name |-> itm.name, description |-> itm.description,
     price_amount |-> itm.price.amount, price_currency |-> itm.price.currency,
     category_name |-> itm.category.name, category_slug |-> itm.category.slug,
     inventory_quantity |-> itm.inventory, images |-> itm.images,
     attributes |-> itm.attributes, status |-> StatusString(itm.status),
     created_at |-> itm.createdAt, updated_at |-> itm.updatedAt]

\* The items table without the UNIQUE constraint on sku
TableConstraintNoUnique(tbl, id, r) ==
    IF Len(r.sku) > 20 \/ Len(r.name) > 255 \/ Len(r.category_name) > 100
       \/ Len(r.category_slug) > 100
    THEN PlainError("pq: value too long for type character varying")
    ELSE IF r.price_amount < 0 \/ r.inventory_quantity < 0 \/ Len(r.price_currency) # 3
         THEN PlainError("pq: new row violates check constraint")
    ELSE NoErr

\* The table's constraints (UNIQUE, VARCHAR lengths and length(), which count
\* characters, CHECKs) on writing row r under id: the error the driver
\* returns, or NoErr.
TableConstraint(tbl, id, r) ==
    IF \E k \in DOMAIN tbl : k # id /\ tbl[k].sku = r.sku
    THEN PlainError("pq: duplicate key value violates unique constraint items_sku_key")
    ELSE IF Len(r.sku) > 20 \/ Len(r.name) > 255 \/ Len(r.category_name) > 100
            \/ Len(r.category_slug) > 100
         THEN PlainError("pq: value too long for type character varying")
    ELSE IF r.price_amount < 0 \/ r.inventory_quantity < 0 \/ Len(r.price_currency) # 3
         THEN PlainError("pq: new row violates check constraint")
    ELSE NoErr

\* Save: the table after the call, the error, and the item as the call left
\* it (Save works on the caller's pointer).
Save(tbl, itm0, now) ==
    LET v == validateItemBusinessRules(itm0) IN
    IF IsErr(v)
    THEN [tbl |-> tbl, err |-> Wrap("business validation failed", v), item |-> itm0]
    ELSE LET itm == applyAutoDiscount(applyBusinessCorrections(itm0, now), now)
             r == ItemRow(itm)
             c == IF itm.id \in DOMAIN tbl
                  THEN PlainError("pq: duplicate key value violates unique constraint items_pkey")
                  ELSE TableConstraint(tbl, itm.id, r)
         IN  IF IsErr(c)
             THEN [tbl |-> tbl, err |-> Wrap("failed to save item", c), item |-> itm]
             ELSE [tbl |-> [k \in (DOMAIN tbl) \cup {itm.id} |->
                               IF k = itm.id THEN r ELSE tbl[k]],
                   err |-> NoErr, item |-> itm]

\* rowToItem: the value objects are rebuilt from the row, then NewItem builds
\* the item; id, inventory, status, images and attributes of the row are
\* parsed and dropped. newID is the id NewItem draws.
rowToItem(row, newID, now) ==
    LET sku == NewSKU(row.sku)
        price == NewPrice(row.price_amount, row.price_currency)
        category == NewCategory(row.category_name)
        inventory == NewInventory(row.inventory_quantity)
        status == StatusFromString(row.status)
    IN  IF IsErr(sku.err) THEN [val |-> NoItem, err |-> Wrap("invalid SKU", sku.err)]
        ELSE IF IsErr(price.err) THEN [val |-> NoItem, err |-> Wrap("invalid price", price.err)]
        ELSE IF IsErr(category.err)
             THEN [val |-> NoItem, err |-> Wrap("invalid category", category.err)]
        ELSE IF IsErr(inventory.err)
             THEN [val |-> NoItem, err |-> Wrap("invalid inventory", inventory.err)]
        ELSE IF IsErr(status.err) THEN [val |-> NoItem, err |-> Wrap("invalid status", status.err)]
        ELSE LET created == NewItem(newID, sku.val, row.name, row.description,
                                    price.val, category.val, now)
             IN  IF IsErr(created.err)
                 THEN [val |-> NoItem, err |-> Wrap("failed to create item", created.err)]
                 ELSE created

FindByID(tbl, id, newID, now) ==
    IF id \notin DOMAIN tbl
    THEN [val |-> NoItem, err |-> ItemNotFoundErrorOf(id)]
    ELSE rowToItem(tbl[id], newID, now)

FindBySKU(tbl, sku, newID, now) ==
    IF \A k \in DOMAIN tbl : tbl[k].sku # sku
    THEN [val |-> NoItem, err |-> ItemNotFoundBySKUError]
    ELSE rowToItem(tbl[CHOOSE k \in DOMAIN tbl : tbl[k].sku = sku], newID, now)

ExistsBySKU(tbl, sku) == \E k \in DOMAIN tbl : tbl[k].sku = sku

\* Delete that reports success and leaves the row
DeleteKeepingRow(tbl, id) ==
    IF id \notin DOMAIN tbl
    THEN [tbl |-> tbl, err |-> ItemNotFoundErrorOf(id)]
    ELSE [tbl |-> tbl, err |-> NoErr]

Delete(tbl, id) ==
    IF id \notin DOMAIN tbl
    THEN [tbl |-> tbl, err |-> ItemNotFoundErrorOf(id)]
    ELSE [tbl |-> [k \in (DOMAIN tbl) \ {id} |-> tbl[k]], err |-> NoErr]


\* validateUpdateBusinessRules. The price rule reads the current row through
\* FindByID (which draws newID when the row is there); the inventory rule
\* compares the quantity with a tenth of itself.
validateUpdateBusinessRules(tbl, itm, newID, now) ==
    LET cur == FindByID(tbl, itm.id, newID, now) IN
    IF itm.status = "StatusActive" /\ ~IsErr(cur.err)
       /\ 2 * (itm.price.amount - cur.val.price.amount) > cur.val.price.amount
    THEN PlainError("price increase %.2f exceeds maximum allowed %.2f for active items")
    ELSE IF itm.inventory < itm.inventory \div 10
         THEN PlainError("cannot reduce inventory below reserved amount")
    ELSE NoErr

\* month is the reading of time.Now().Month()
applyUpdateTransformations(itm, now, month) ==
    LET a == IF itm.inventory = 0 /\ itm.status = "StatusActive"
             THEN SetStatus(itm, "StatusArchived", now)
             ELSE itm
    IN  IF a.category.name = <<"s","e","a","s","o","n","a","l">> /\ a.status = "StatusActive"
           /\ (month < 6 \/ month > 9)
        THEN SetStatus(a, "StatusInactive", now)
        ELSE a

\* Update: UPDATE ... WHERE id = $1 writes every column but sku and
\* created_at; the table's trigger sets updated_at to the time of the write.
\* ids is the number of ids the call drew.
Update(tbl, itm0, newID, now, month) ==
    LET v == validateUpdateBusinessRules(tbl, itm0, newID, now)
        ids == IF itm0.status = "StatusActive" /\ itm0.id \in DOMAIN tbl THEN 1 ELSE 0
    IN
    IF IsErr(v)
    THEN [tbl |-> tbl, err |-> Wrap("update validation failed", v), item |-> itm0, ids |-> ids]
    ELSE LET itm == applyUpdateTransformations(itm0, now, month) IN
         IF itm.id \notin DOMAIN tbl
         THEN [tbl |-> tbl, err |-> ItemNotFoundErrorOf(itm.id), item |-> itm, ids |-> ids]
         ELSE LET r == [ItemRow(itm) EXCEPT !.sku = tbl[itm.id].sku,
                                            !.created_at = tbl[itm.id].created_at,
                                            !.updated_at = now]
                  c == TableConstraint(tbl, itm.id, r)
              IN  IF IsErr(c)
                  THEN [tbl |-> tbl, err |-> Wrap("failed to update item", c),
                        item |-> itm, ids |-> ids]
                  ELSE [tbl |-> [tbl EXCEPT ![itm.id] = r], err |-> NoErr,
                        item |-> itm, ids |-> ids]

\* ----------------------------------------------------------- use cases
\* An id string: 0 is a string uuid.Parse rejects, any other number a
\* well-formed 36-character UUID.
BadID == 0
NewItemIDFromString(id) ==
    IF id = BadID
    THEN [val |-> BadID, err |-> NewDomainError("invalid item ID format")]
    ELSE [val |-> id, err |-> NoErr]

NoResponse == [ID |-> 0]

mapItemToResponse(itm) ==
    [ID |-> itm.id, SKU |-> itm.sku, Name |-> itm.name, Description |-> itm.description,
     Price |-> itm.price.amount, Currency |-> itm.price.currency,
     Category |-> [Name |-> itm.category.name, Slug |-> itm.category.slug],
     Inventory |-> [Quantity |-> itm.inventory, IsAvailable |-> itm.inventory > 0],
     Images |-> itm.images, Attributes |-> itm.attributes,
     Status |-> StatusString(itm.status),
     CreatedAt |-> itm.createdAt, UpdatedAt |-> itm.updatedAt]

\* The discount CreateItem applies itself, keyed on the raw request category.
UseCaseDiscountPct(category) ==
    IF category = <<"e","l","e","c","t","r","o","n","i","c","s">> THEN 95
    ELSE IF category = <<"b","o","o","k","s">> THEN 90
    ELSE 100

\* CreateItem up to the call of Save. req.Price and the pricing result are
\* whole dollars; catOK is the answer of ValidateCategory, calc the answer of
\* CalculatePrice ([ok, price]). The result: the error or the item to save,
\* the repository calls made and the number of ids drawn.
CreateItemPrepare(tbl, req, catOK, calc, newID, now) ==
    LET fail(e, calls) == [err |-> e, item |-> NoItem, calls |-> calls, ids |-> 0]
        skuUpper == ToUpper(req.SKU)
        finalCents == calc.price * UseCaseDiscountPct(req.Category)
        sku == NewSKU(skuUpper)
        price == NewPrice(finalCents, USD)
        category == NewCategory(req.Category)
    IN
    IF req.Name = <<>> \/ ByteLen(req.Name) < MinNameLen
    THEN fail(PlainError("item name must be at least 3 characters"), <<>>)
    ELSE IF req.Price <= 0 THEN fail(PlainError("item price must be positive"), <<>>)
    ELSE IF req.Price > MaxUseCasePrice THEN fail(PlainError("item price too high"), <<>>)
    ELSE IF req.SKU = <<>> THEN fail(PlainError("SKU is required"), <<>>)
    ELSE IF ByteLen(skuUpper) < MinUseCaseSKULen \/ ByteLen(skuUpper) > MaxUseCaseSKULen
         THEN fail(PlainError("SKU must be between 3 and 50 characters"), <<>>)
    ELSE IF req.Category = <<>> THEN fail(PlainError("category is required"), <<>>)
    ELSE IF ~catOK
         THEN fail(Wrap("invalid category", PlainError("category service: rejected")), <<>>)
    ELSE IF ~calc.ok
         THEN fail(Wrap("failed to calculate price", PlainError("pricing service: failed")), <<>>)
    ELSE IF ExistsBySKU(tbl, <<>>)
         THEN fail(PlainError("item with this SKU already exists"), <<"ExistsBySKU">>)
    ELSE IF IsErr(sku.err) THEN fail(Wrap("invalid SKU", sku.err), <<"ExistsBySKU">>)
    ELSE IF IsErr(price.err) THEN fail(Wrap("invalid price", price.err), <<"ExistsBySKU">>)
    ELSE IF IsErr(category.err)
         THEN fail(Wrap("invalid category", category.err), <<"ExistsBySKU">>)
    ELSE LET created == NewItem(newID, sku.val, req.Name, req.Description,
                                price.val, category.val, now)
             withInv == IF req.Inventory > 0
                        THEN SetInventory(created.val, NewInventory(req.Inventory).val, now)
                        ELSE created.val
             withStatus == IF req.Price > DraftPriceThreshold
                           THEN SetStatus(withInv, "StatusDraft", now)
                           ELSE SetStatus(withInv, "StatusActive", now)
         IN  IF IsErr(created.err)
             THEN fail(Wrap("failed to create item", created.err), <<"ExistsBySKU">>)
             ELSE [err |-> NoErr, item |-> withStatus, calls |-> <<"ExistsBySKU">>, ids |-> 1]

\* An id string as a request carries it: uuid is the UUID it denotes (BadID
\* when uuid.Parse rejects it), len its length; the canonical form is 36
\* characters long.
IDString(n) == [uuid |-> n, len |-> UUIDLen]

\* UpdateInventory that stores a negative quantity as zero
UpdateInventoryClamping(tbl, id, req, newID, now) ==
    LET itemID == NewItemIDFromString(id.uuid)
        found == FindByID(tbl, itemID.val, newID, now)
        ids == IF itemID.val \in DOMAIN tbl THEN 1 ELSE 0
        fail(e, calls, n) == [err |-> e, item |-> NoItem, calls |-> calls, ids |-> n]
        quantity == IF req.Quantity < 0 THEN 0 ELSE req.Quantity
    IN
    IF IsErr(itemID.err) THEN fail(Wrap("invalid item ID", itemID.err), <<>>, 0)
    ELSE IF IsErr(found.err)
         THEN fail(Wrap("failed to find item", found.err), <<"FindByID">>, ids)
    ELSE IF req.Quantity > MaxInventoryQuantity
         THEN fail(PlainError("inventory quantity too high"), <<"FindByID">>, ids)
    ELSE [err |-> NoErr, item |-> SetInventory(found.val, NewInventory(quantity).val, now),
          calls |-> <<"FindByID">>, ids |-> ids]

\* UpdateInventory up to the call of Update
UpdateInventoryPrepare(tbl, id, req, newID, now) ==
    LET itemID == NewItemIDFromString(id.uuid)
        found == FindByID(tbl, itemID.val, newID, now)
        ids == IF itemID.val \in DOMAIN tbl THEN 1 ELSE 0
        fail(e, calls, n) == [err |-> e, item |-> NoItem, calls |-> calls, ids |-> n]
        newInventory == NewInventory(req.Quantity)
    IN
    IF IsErr(itemID.err) THEN fail(Wrap("invalid item ID", itemID.err), <<>>, 0)
    ELSE IF IsErr(found.err)
         THEN fail(Wrap("failed to find item", found.err), <<"FindByID">>, ids)
    ELSE IF req.Quantity < 0
         THEN fail(PlainError("inventory quantity cannot be negative"), <<"FindByID">>, ids)
    ELSE IF req.Quantity > MaxInventoryQuantity
         THEN fail(PlainError("inventory quantity too high"), <<"FindByID">>, ids)
    ELSE IF IsErr(newInventory.err)
         THEN fail(Wrap("invalid inventory quantity", newInventory.err), <<"FindByID">>, ids)
    ELSE [err |-> NoErr, item |-> SetInventory(found.val, newInventory.val, now),
          calls |-> <<"FindByID">>, ids |-> ids]

\* AddImage up to the call of Update
AddImagePrepare(tbl, id, req, newID, now) ==
    LET itemID == NewItemIDFromString(id.uuid)
        found == FindByID(tbl, itemID.val, newID, now)
        ids == IF itemID.val \in DOMAIN tbl THEN 1 ELSE 0
        fail(e, calls, n) == [err |-> e, item |-> NoItem, calls |-> calls, ids |-> n]
        image == NewImage(req.URL, req.Alt, req.IsPrimary)
    IN
    IF IsErr(itemID.err) THEN fail(Wrap("invalid item ID", itemID.err), <<>>, 0)
    ELSE IF IsErr(found.err)
         THEN fail(Wrap("failed to find item", found.err), <<"FindByID">>, ids)
    ELSE IF IsErr(image.err) THEN fail(Wrap("invalid image", image.err), <<"FindByID">>, ids)
    ELSE IF req.URL = <<>> THEN fail(PlainError("image URL is required"), <<"FindByID">>, ids)
    ELSE IF ByteLen(req.URL) > MaxImageURLLen
         THEN fail(PlainError("image URL too long"), <<"FindByID">>, ids)
    ELSE [err |-> NoErr, item |-> AddImage(found.val, image.val, now),
          calls |-> <<"FindByID">>, ids |-> ids]

\* ActivateItem and DeactivateItem that go on to Update whatever FindByID
\* returned
SetStatusUnchecked(tbl, id, status, newID, now) ==
    LET itemID == NewItemIDFromString(id.uuid)
        found == FindByID(tbl, itemID.val, newID, now)
        ids == IF itemID.val \in DOMAIN tbl THEN 1 ELSE 0
        blank == [id |-> itemID.val, sku |-> <<>>, name |-> <<>>, description |-> <<>>,
                  price |-> [amount |-> 0, currency |-> USD],
                  category |-> [name |-> <<>>, slug |-> <<>>], inventory |-> 0,
                  images |-> <<>>, attributes |-> <<>>, status |-> "StatusDraft",
                  createdAt |-> now, updatedAt |-> now]
    IN
    IF IsErr(itemID.err)
    THEN [err |-> Wrap("invalid item ID", itemID.err), item |-> NoItem, calls |-> <<>>,
          ids |-> 0]
    ELSE [err |-> NoErr,
          item |-> SetStatus(IF IsErr(found.err) THEN blank ELSE found.val, status, now),
          calls |-> <<"FindByID">>, ids |-> ids]

\* ActivateItem (status StatusActive) and DeactivateItem (StatusInactive) up
\* to the call of Update
SetStatusPrepare(tbl, id, status, newID, now) ==
    LET itemID == NewItemIDFromString(id.uuid)
        found == FindByID(tbl, itemID.val, newID, now)
        ids == IF itemID.val \in DOMAIN tbl THEN 1 ELSE 0
        fail(e, calls, n) == [err |-> e, item |-> NoItem, calls |-> calls, ids |-> n]
    IN
    IF IsErr(itemID.err) THEN fail(Wrap("invalid item ID", itemID.err), <<>>, 0)
    ELSE IF IsErr(found.err)
         THEN fail(Wrap("failed to find item", found.err), <<"FindByID">>, ids)
    ELSE [err |-> NoErr, item |-> SetStatus(found.val, status, now),
          calls |-> <<"FindByID">>, ids |-> ids]

\* The attribute loop of UpdateItem over the keys in the order the map
\* iteration yields them.
RECURSIVE SetAttributes(_, _, _)
SetAttributes(itm, attrs, order) ==
    IF order = <<>> THEN [err |-> NoErr, item |-> itm]
    ELSE LET key == Head(order)
             value == attrs[key]
         IN  IF key = <<>>
             THEN [err |-> PlainError("attribute key cannot be empty"), item |-> itm]
             ELSE IF ByteLen(value) > MaxAttributeValueLen
                  THEN [err |-> PlainError("attribute value too long"), item |-> itm]
             ELSE SetAttributes([itm EXCEPT !.attributes = AttributesSet(@, key, value).val],
                                attrs, Tail(order))

\* UpdateItem up to the call of Update. req.Price and req.Currency are
\* pointers ([has, v]); req.Price.v is in cents.
UpdateItemPrepare(tbl, id, req, order, newID, now) ==
    LET itemID == NewItemIDFromString(id.uuid)
        found == FindByID(tbl, itemID.val, newID, now)
        ids == IF itemID.val \in DOMAIN tbl THEN 1 ELSE 0
        fail(e, calls, n) == [err |-> e, item |-> NoItem, calls |-> calls, ids |-> n]
        currency == IF req.Currency.has THEN req.Currency.v ELSE found.val.price.currency
        newPrice == NewPrice(req.Price.v, currency)
        priced == IF req.Price.has THEN SetPrice(found.val, newPrice.val, now) ELSE found.val
        attributed == SetAttributes(priced, req.Attributes, order)
    IN
    IF IsErr(itemID.err) THEN fail(Wrap("invalid item ID", itemID.err), <<>>, 0)
    ELSE IF IsErr(found.err)
         THEN fail(Wrap("failed to find item", found.err), <<"FindByID">>, ids)
    ELSE IF req.Price.has /\ IsErr(newPrice.err)
         THEN fail(Wrap("invalid price", newPrice.err), <<"FindByID">>, ids)
    ELSE IF IsErr(attributed.err) THEN fail(attributed.err, <<"FindByID">>, ids)
    ELSE [err |-> NoErr, item |-> attributed.item, calls |-> <<"FindByID">>, ids |-> ids]

\* The orders in which a map over the keys ks can be iterated
Orders(ks) ==
    {o \in [1..Cardinality(ks) -> ks] : \A i, j \in DOMAIN o : i # j => o[i] # o[j]}

\* ------------------------------------------------------------- requests
SkuA == <<"a","b","-","1">>
SkuB == <<"c","d","-","2">>
Toys == <<"t","o","y","s">>
Electronics == <<"e","l","e","c","t","r","o","n","i","c","s">>
Restricted == <<"r","e","s","t","r","i","c","t","e","d">>
ItemName == <<"p","e","n">>

\* Well-formed CreateItem requests: two SKUs, prices under the draft
\* threshold, over it and over the repository's threshold, a plain and a
\* discounted category, and inventories on both sides of the repository's
\* correction levels.
Request(sku, price, category, inventory) ==
    [SKU |-> sku, Name |-> ItemName, Description |-> <<>>, Price |-> price,
     Category |-> category, Inventory |-> inventory]

BaseRequests ==
    {Request(SkuA, 500, Toys, 5), Request(SkuA, 2000, Toys, 150),
     Request(SkuA, 20000, Toys, 0), Request(SkuB, 2000, Electronics, 3),
     Request(SkuB, 500, Toys, 0)}

BaseRequest == Request(SkuA, 500, Toys, 5)

\* Requests with one field out of range, or at the edge of it
FaultRequests ==
    {[BaseRequest EXCEPT !.Name = n] : n \in {<<>>, <<"a","b">>, <<SmallEAcute, SmallEAcute>>}}
    \cup {[BaseRequest EXCEPT !.Price = p] : p \in {0 - 1, 0, MaxUseCasePrice + 1}}
    \cup {[BaseRequest EXCEPT !.SKU = k] :
            k \in {<<>>, <<"a","b">>, Repeat("a", MaxUseCaseSKULen + 1),
                   <<"a","-">> \o Repeat("b", MaxSKULen - 1), <<"a","b","c">>,
                   <<"a","b","-","!">>}}
    \cup {[BaseRequest EXCEPT !.Category = c] : c \in {<<>>, <<" ">>, Restricted}}
    \cup {[BaseRequest EXCEPT !.Inventory = 0 - 1]}
    \cup {[BaseRequest EXCEPT !.SKU = SkuB, !.Category = Restricted]}

CreateRequests == BaseRequests \cup FaultRequests

\* The answers of the collaborators for a request: ValidateCategory accepts
\* or rejects; CalculatePrice, asked only after an accepted category, returns
\* the request's price, a negative price, or an error.
CollaboratorAnswers(req) ==
    {[catOK |-> FALSE, calc |-> [ok |-> FALSE, price |-> 0]],
     [catOK |-> TRUE, calc |-> [ok |-> TRUE, price |-> req.Price]],
     [catOK |-> TRUE, calc |-> [ok |-> TRUE, price |-> 0 - 1]],
     [catOK |-> TRUE, calc |-> [ok |-> FALSE, price |-> 0]]}

\* id strings: the canonical form of every id and a 36-character string
\* uuid.Parse rejects; for GetItemByID also a form uuid.Parse accepts that is
\* not 36 characters long, the empty string and a short string.
IDStrings == {IDString(n) : n \in IDs} \cup {IDString(BadID)}
LookupIDStrings ==
    IDStrings \cup {[uuid |-> 1, len |-> UUIDLen + 2], [uuid |-> BadID, len |-> 0],
                    [uuid |-> BadID, len |-> 7]}

Quantities == {0 - 1, 0, 7, MaxInventoryQuantity, MaxInventoryQuantity + 1}

ImageURL == <<"u">>
AddImageRequests ==
    [URL : {<<>>, ImageURL, Repeat("u", MaxImageURLLen + 1)}, Alt : {<<>>},
     IsPrimary : {FALSE}]

\* Pointer fields of a request: nil, or a value
NilPrice == [has |-> FALSE, v |-> 0]
NilCurrency == [has |-> FALSE, v |-> <<>>]
Ptr(v) == [has |-> TRUE, v |-> v]
NoAttributes == <<>>
Color == <<"c","o","l","o","r">>
UpdateItemRequests ==
    {[Price |-> NilPrice, Currency |-> NilCurrency, Attributes |-> NoAttributes],
     [Price |-> Ptr(70000), Currency |-> NilCurrency, Attributes |-> NoAttributes],
     [Price |-> Ptr(70000), Currency |-> Ptr(<<"e","u","r">>), Attributes |-> NoAttributes],
     [Price |-> Ptr(0 - 100), Currency |-> NilCurrency, Attributes |-> NoAttributes],
     [Price |-> NilPrice, Currency |-> NilCurrency, Attributes |-> [k \in {Color} |-> <<"r","e","d">>]],
     [Price |-> NilPrice, Currency |-> NilCurrency,
      Attributes |-> [k \in {<<>>, Color} |->
                         IF k = Color THEN Repeat("x", MaxAttributeValueLen + 1) ELSE <<"x">>]]}

\* the readings of time.Now().Month()
Months == {3, 7}

\* ---------------------------------------------------------------- state
VARIABLES
    store,      \* the items table
    nextID,     \* the next id uuid.New() hands out
    clock,      \* the reading of time.Now(); it advances when an item is built
    pc,         \* per worker: "idle", or the repository write it is about to make
    cur,        \* per worker: the call in flight
    last,       \* the call that has returned and whose response is being delivered
    created,    \* history: the responses of the CreateItem calls that succeeded
    deleted     \* history: the ids DeleteItem deleted

vars == <<store, nextID, clock, pc, cur, last, created, deleted>>

Call(w, op, req, err, resp, calls) ==
    [w |-> w, op |-> op, req |-> req, err |-> err, resp |-> resp, calls |-> calls]

NoRequest == [id |-> IDString(BadID)]
NoCall == Call(0, "none", NoRequest, NoErr, NoResponse, <<>>)
InFlight(op, req, itm, calls) == [op |-> op, req |-> req, item |-> itm, calls |-> calls]
Idle == InFlight("none", NoRequest, NoItem, <<>>)

Init ==
    /\ store = <<>>
    /\ nextID = 1
    /\ clock = 1
    /\ pc = [w \in Workers |-> "idle"]
    /\ cur = [w \in Workers |-> Idle]
    /\ last = NoCall
    /\ created = {}
    /\ deleted = {}

\* A call returns without having reached a repository write.
Return(w, op, req, p) ==
    /\ last' = Call(w, op, req, p.err, NoResponse, p.calls)
    /\ nextID' = nextID + p.ids
    /\ clock' = clock + p.ids
    /\ UNCHANGED <<store, pc, cur, created, deleted>>

\* A call goes on to its repository write with the item it built.
Proceed(w, op, req, p, to) ==
    /\ pc' = [pc EXCEPT ![w] = to]
    /\ cur' = [cur EXCEPT ![w] = InFlight(op, req, p.item, p.calls)]
    /\ nextID' = nextID + p.ids
    /\ clock' = clock + p.ids
    /\ UNCHANGED <<store, last, created, deleted>>

Step(w, op, req, p, to) ==
    /\ p.ids = 0 \/ nextID <= MaxIDs
    /\ IF IsErr(p.err) THEN Return(w, op, req, p) ELSE Proceed(w, op, req, p, to)

\* CreateItem, from the request to the call of Save
CreateItem(w) ==
    /\ pc[w] = "idle"
    /\ last = NoCall
    /\ \E req \in CreateRequests :
         \E a \in CollaboratorAnswers(req) :
            Step(w, "CreateItem", [req |-> req, answers |-> a],
                 CreateItemPrepare(store, req, a.catOK, a.calc, nextID, clock), "Save")

\* CreateItem, from the call of Save to the response
CreateItemSave(w) ==
    /\ pc[w] = "Save"
    /\ last = NoCall
    /\ LET r == Save(store, cur[w].item, clock)
           err == IF IsErr(r.err) THEN Wrap("failed to save item", r.err) ELSE NoErr
           resp == IF IsErr(r.err) THEN NoResponse ELSE mapItemToResponse(r.item)
       IN  /\ store' = r.tbl
           /\ last' = Call(w, "CreateItem", cur[w].req, err, resp,
                           Append(cur[w].calls, "Save"))
           /\ created' = IF IsErr(r.err) THEN created ELSE created \cup {resp}
    /\ pc' = [pc EXCEPT ![w] = "idle"]
    /\ cur' = [cur EXCEPT ![w] = Idle]
    /\ UNCHANGED <<nextID, clock, deleted>>

UpdateInventory(w) ==
    /\ pc[w] = "idle"
    /\ last = NoCall
    /\ \E id \in IDStrings, q \in Quantities :
         LET req == [id |-> id, Quantity |-> q] IN
         Step(w, "UpdateInventory", req,
              UpdateInventoryPrepare(store, id, req, nextID, clock), "Update")

AddImageCall(w) ==
    /\ pc[w] = "idle"
    /\ last = NoCall
    /\ \E id \in IDStrings, r \in AddImageRequests :
         LET req == [id |-> id, URL |-> r.URL, Alt |-> r.Alt, IsPrimary |-> r.IsPrimary] IN
         Step(w, "AddImage", req, AddImagePrepare(store, id, req, nextID, clock), "Update")

ActivateItem(w) ==
    /\ pc[w] = "idle"
    /\ last = NoCall
    /\ \E id \in IDStrings :
         Step(w, "ActivateItem", [id |-> id],
              SetStatusPrepare(store, id, "StatusActive", nextID, clock), "Update")

DeactivateItem(w) ==
    /\ pc[w] = "idle"
    /\ last = NoCall
    /\ \E id \in IDStrings :
         Step(w, "DeactivateItem", [id |-> id],
              SetStatusPrepare(store, id, "StatusInactive", nextID, clock), "Update")

UpdateItem(w) ==
    /\ pc[w] = "idle"
    /\ last = NoCall
    /\ \E id \in IDStrings, r \in UpdateItemRequests :
         \E order \in Orders(DOMAIN r.Attributes) :
            LET req == [id |-> id, Price |-> r.Price, Currency |-> r.Currency,
                        Attributes |-> r.Attributes]
            IN  Step(w, "UpdateItem", req,
                     UpdateItemPrepare(store, id, req, order, nextID, clock), "Update")

\* The context each use case wraps an error of Update in
UpdateErrorContext(op) ==
    IF op \in {"UpdateInventory", "AddImage"} THEN "failed to save item"
    ELSE "failed to update item"

\* The second half of the five mutating use cases: the call of Update and
\* the response.
RepositoryUpdate(w) ==
    /\ pc[w] = "Update"
    /\ last = NoCall
    /\ \E month \in Months :
         LET r == Update(store, cur[w].item, nextID, clock, month)
             err == IF IsErr(r.err) THEN Wrap(UpdateErrorContext(cur[w].op), r.err) ELSE NoErr
             resp == IF IsErr(r.err) \/ cur[w].op \in {"ActivateItem", "DeactivateItem"}
                     THEN NoResponse
                     ELSE mapItemToResponse(r.item)
         IN  /\ r.ids = 0 \/ nextID <= MaxIDs
             /\ store' = r.tbl
             /\ last' = Call(w, cur[w].op, cur[w].req, err, resp,
                             Append(cur[w].calls, "Update"))
             /\ nextID' = nextID + r.ids
             /\ clock' = clock + r.ids
    /\ pc' = [pc EXCEPT ![w] = "idle"]
    /\ cur' = [cur EXCEPT ![w] = Idle]
    /\ UNCHANGED <<created, deleted>>

DeleteItem(w) ==
    /\ pc[w] = "idle"
    /\ last = NoCall
    /\ \E id \in IDStrings :
         LET itemID == NewItemIDFromString(id.uuid)
             r == Delete(store, itemID.val)
         IN  IF IsErr(itemID.err)
             THEN /\ last' = Call(w, "DeleteItem", [id |-> id],
                                  Wrap("invalid item ID", itemID.err), NoResponse, <<>>)
                  /\ UNCHANGED <<store, deleted>>
             ELSE /\ store' = r.tbl
                  /\ last' = Call(w, "DeleteItem", [id |-> id],
                                  IF IsErr(r.err) THEN Wrap("failed to delete item", r.err)
                                  ELSE NoErr,
                                  NoResponse, <<"Delete">>)
                  /\ deleted' = IF IsErr(r.err) THEN deleted ELSE deleted \cup {itemID.val}
    /\ UNCHANGED <<nextID, clock, pc, cur, created>>

\* GetItemByID: the result and the number of ids drawn
GetItemByIDResult(tbl, id, newID, now) ==
    LET itemID == NewItemIDFromString(id.uuid)
        found == FindByID(tbl, itemID.val, newID, now)
        ids == IF itemID.val \in DOMAIN tbl THEN 1 ELSE 0
        response == mapItemToResponse(found.val)
        fail(e, calls, n) == [err |-> e, resp |-> NoResponse, calls |-> calls, ids |-> n]
    IN
    IF id.len = 0 THEN fail(PlainError("item ID cannot be empty"), <<>>, 0)
    ELSE IF id.len # UUIDLen THEN fail(PlainError("invalid item ID format"), <<>>, 0)
    ELSE IF IsErr(itemID.err) THEN fail(Wrap("invalid item ID", itemID.err), <<>>, 0)
    ELSE IF IsErr(found.err)
         THEN fail(Wrap("failed to find item", found.err), <<"FindByID">>, ids)
    ELSE [err |-> NoErr,
          resp |-> IF found.val.status = "StatusDraft"
                   THEN [response EXCEPT !.Price = 0]
                   ELSE response,
          calls |-> <<"FindByID">>, ids |-> ids]

GetItemBySKUResult(tbl, skuStr, newID, now) ==
    LET sku == NewSKU(skuStr)
        found == FindBySKU(tbl, sku.val, newID, now)
        ids == IF ExistsBySKU(tbl, sku.val) THEN 1 ELSE 0
        fail(e, calls, n) == [err |-> e, resp |-> NoResponse, calls |-> calls, ids |-> n]
    IN
    IF IsErr(sku.err) THEN fail(Wrap("invalid SKU", sku.err), <<>>, 0)
    ELSE IF IsErr(found.err)
         THEN fail(Wrap("failed to find item", found.err), <<"FindBySKU">>, ids)
    ELSE [err |-> NoErr, resp |-> mapItemToResponse(found.val),
          calls |-> <<"FindBySKU">>, ids |-> ids]

\* A read use case returns.
Answer(w, op, req, r) ==
    /\ r.ids = 0 \/ nextID <= MaxIDs
    /\ last' = Call(w, op, req, r.err, r.resp, r.calls)
    /\ nextID' = nextID + r.ids
    /\ clock' = clock + r.ids
    /\ UNCHANGED <<store, pc, cur, created, deleted>>

GetItemByID(w) ==
    /\ pc[w] = "idle"
    /\ last = NoCall
    /\ \E id \in LookupIDStrings :
         Answer(w, "GetItemByID", [id |-> id], GetItemByIDResult(store, id, nextID, clock))

LookupSKUs == {SkuA, SkuB, <<"z","z","-","9">>, <<>>}

GetItemBySKU(w) ==
    /\ pc[w] = "idle"
    /\ last = NoCall
    /\ \E skuStr \in LookupSKUs :
         Answer(w, "GetItemBySKU", [sku |-> skuStr],
                GetItemBySKUResult(store, skuStr, nextID, clock))

\* The response of the call that returned is handed to its caller; the
\* responses are handed over one at a time.
Respond ==
    /\ last # NoCall
    /\ last' = NoCall
    /\ UNCHANGED <<store, nextID, clock, pc, cur, created, deleted>>

Next ==
    \/ Respond
    \/ \E w \in Workers :
        \/ CreateItem(w)
        \/ CreateItemSave(w)
        \/ UpdateInventory(w)
        \/ AddImageCall(w)
        \/ ActivateItem(w)
        \/ DeactivateItem(w)
        \/ UpdateItem(w)
        \/ RepositoryUpdate(w)
        \/ DeleteItem(w)
        \/ GetItemByID(w)
        \/ GetItemBySKU(w)

Spec == Init /\ [][Next]_vars

\* ------------------------------------------------ repository: list queries
\* s ILIKE '%q%': q occurs in s, letter case ignored. The patterns modelled
\* hold no LIKE metacharacter (% or _).
HasSubstring(s, q) ==
    \E i \in 0..(Len(s) - Len(q)) : SubSeq(s, i + 1, i + Len(q)) = q

ILike(s, q) == HasSubstring(ToLower(s), ToLower(q))

\* ORDER BY created_at DESC over the whole table: every order of the keys the
\* database may produce (rows of equal created_at come in any order).
NewestFirst(tbl) ==
    {s \in [1..Cardinality(DOMAIN tbl) -> DOMAIN tbl] :
        \A i, j \in DOMAIN s :
            i < j => s[i] # s[j] /\ tbl[s[i]].created_at >= tbl[s[j]].created_at}

\* The hits of a WHERE clause, newest first, cut by LIMIT limit OFFSET offset:
\* the keys of the rows returned, or the error of the database.
SelectPage(hits, limit, offset) ==
    LET upto == IF offset + limit < Len(hits) THEN offset + limit ELSE Len(hits) IN
    IF offset < 0 THEN [keys |-> <<>>, err |-> PlainError("pq: OFFSET must not be negative")]
    ELSE IF limit < 0
         THEN [keys |-> <<>>, err |-> PlainError("pq: LIMIT must not be negative")]
    ELSE [keys |-> SubSeq(hits, offset + 1, upto), err |-> NoErr]

\* rowsToItems: each row is converted by rowToItem, which draws a fresh id and
\* reads the clock for every item it builds; the first failure ends the call.
rowsToItems(tbl, keys, newID, now) ==
    LET built == [i \in 1..Len(keys) |-> rowToItem(tbl[keys[i]], newID + i - 1, now + i - 1)]
        bad == {i \in 1..Len(keys) : IsErr(built[i].err)}
        first == CHOOSE i \in bad : \A j \in bad : i <= j
    IN  IF bad # {}
        THEN [val |-> <<>>, err |-> Wrap("failed to convert row to item", built[first].err),
              ids |-> first]
        ELSE [val |-> [i \in 1..Len(keys) |-> built[i].val], err |-> NoErr, ids |-> Len(keys)]

\* A query method: the page is selected, then converted.
QueryItems(tbl, hits, ctx, limit, offset, newID, now) ==
    LET page == SelectPage(hits, limit, offset) IN
    IF IsErr(page.err)
    THEN [val |-> <<>>, err |-> Wrap(ctx, page.err), ids |-> 0]
    ELSE rowsToItems(tbl, page.keys, newID, now)

\* FindByCategory with the WHERE clause left out
FindByCategoryUnfiltered(tbl, category, limit, offset, order, newID, now) ==
    QueryItems(tbl, order, "failed to find items by category", limit, offset, newID, now)

FindByCategory(tbl, category, limit, offset, order, newID, now) ==
    QueryItems(tbl, SelectSeq(order, LAMBDA k : tbl[k].category_slug = category.slug),
               "failed to find items by category", limit, offset, newID, now)

FindByStatus(tbl, status, limit, offset, order, newID, now) ==
    QueryItems(tbl, SelectSeq(order, LAMBDA k : tbl[k].status = StatusString(status)),
               "failed to find items by status", limit, offset, newID, now)

\* Search: the query text is pasted into the SQL; a text with a single quote
\* leaves a string literal open and the statement does not parse.
Search(tbl, query, limit, offset, order, newID, now) ==
    IF Contains(query, "'")
    THEN [val |-> <<>>,
          err |-> Wrap("failed to search items", PlainError("pq: unterminated quoted string")),
          ids |-> 0]
    ELSE QueryItems(tbl,
                    SelectSeq(order, LAMBDA k : \/ ILike(tbl[k].name, query)
                                                \/ ILike(tbl[k].description, query)
                                                \/ ILike(tbl[k].sku, query)),
                    "failed to search items", limit, offset, newID, now)

FindAvailableItems(tbl, limit, offset, order, newID, now) ==
    QueryItems(tbl,
               SelectSeq(order, LAMBDA k : /\ tbl[k].status = StatusString("StatusActive")
                                           /\ tbl[k].inventory_quantity > 0),
               "failed to find available items", limit, offset, newID, now)

\* ---------------------------------------------------- use cases: lists
\* A repository query as the use case issues it
Query(method, arg, limit, offset) ==
    [method |-> method, arg |-> arg, limit |-> limit, offset |-> offset]

\* What a call leaves when the goroutine panics instead of returning
Panicked == [panic |-> "runtime error: integer divide by zero"]

\* Go's integer division truncates toward zero.
GoDiv(a, b) ==
    IF (a >= 0) = (b > 0) THEN (IF a >= 0 THEN a ELSE 0 - a) \div (IF b > 0 THEN b ELSE 0 - b)
    ELSE 0 - ((IF a >= 0 THEN a ELSE 0 - a) \div (IF b > 0 THEN b ELSE 0 - b))

\* ListResponse with the page count rounded down
ListResponseFloor(items, page, pageSize) ==
    IF pageSize = 0 THEN Panicked
    ELSE [Items |-> [i \in 1..Len(items) |-> mapItemToResponse(items[i])],
          Total |-> Len(items), Page |-> page, PageSize |-> pageSize,
          TotalPages |-> GoDiv(Len(items), pageSize)]

\* The ItemListResponse built from the items of the page
ListResponse(items, page, pageSize) ==
    IF pageSize = 0 THEN Panicked
    ELSE [Items |-> [i \in 1..Len(items) |-> mapItemToResponse(items[i])],
          Total |-> Len(items), Page |-> page, PageSize |-> pageSize,
          TotalPages |-> GoDiv(Len(items) + pageSize - 1, pageSize)]

\* The end of a list use case: the repository's error wrapped, or the response
ListResult(found, ctx, q, page, pageSize) ==
    IF IsErr(found.err)
    THEN [err |-> Wrap(ctx, found.err), resp |-> NoResponse, calls |-> <<q>>, ids |-> found.ids]
    ELSE [err |-> NoErr, resp |-> ListResponse(found.val, page, pageSize),
          calls |-> <<q>>, ids |-> found.ids]

\* SearchItems dispatching on Category before Query
SearchDispatchCategoryFirst(req) ==
    IF req.Category # <<>> THEN "FindByCategory"
    ELSE IF req.Query # <<>> THEN "Search"
    ELSE IF req.Status # <<>> THEN "FindByStatus"
    ELSE "FindAvailableItems"

\* The branch SearchItems takes for a request
SearchDispatch(req) ==
    IF req.Query # <<>> THEN "Search"
    ELSE IF req.Category # <<>> THEN "FindByCategory"
    ELSE IF req.Status # <<>> THEN "FindByStatus"
    ELSE "FindAvailableItems"

SearchItemsResult(tbl, req, order, newID, now) ==
    LET offset == (req.Page - 1) * req.PageSize
        category == NewCategory(req.Category)
        status == StatusFromString(req.Status)
        branch == SearchDispatch(req)
        fail(e) == [err |-> e, resp |-> NoResponse, calls |-> <<>>, ids |-> 0]
        done(found, q) == ListResult(found, "failed to search items", q, req.Page, req.PageSize)
    IN
    IF branch = "Search"
    THEN done(Search(tbl, req.Query, req.PageSize, offset, order, newID, now),
              Query("Search", req.Query, req.PageSize, offset))
    ELSE IF branch = "FindByCategory"
         THEN IF IsErr(category.err) THEN fail(Wrap("invalid category", category.err))
              ELSE done(FindByCategory(tbl, category.val, req.PageSize, offset, order, newID, now),
                        Query("FindByCategory", category.val.slug, req.PageSize, offset))
    ELSE IF branch = "FindByStatus"
         THEN IF IsErr(status.err) THEN fail(Wrap("invalid status", status.err))
              ELSE done(FindByStatus(tbl, status.val, req.PageSize, offset, order, newID, now),
                        Query("FindByStatus", StatusString(status.val), req.PageSize, offset))
    ELSE done(FindAvailableItems(tbl, req.PageSize, offset, order, newID, now),
              Query("FindAvailableItems", <<>>, req.PageSize, offset))

GetItemsByCategoryResult(tbl, req, order, newID, now) ==
    LET category == NewCategory(req.Category)
        offset == (req.Page - 1) * req.PageSize
    IN  IF IsErr(category.err)
        THEN [err |-> Wrap("invalid category", category.err), resp |-> NoResponse,
              calls |-> <<>>, ids |-> 0]
        ELSE ListResult(FindByCategory(tbl, category.val, req.PageSize, offset, order, newID, now),
                        "failed to find items by category",
                        Query("FindByCategory", category.val.slug, req.PageSize, offset),
                        req.Page, req.PageSize)

GetAvailableItemsResult(tbl, req, order, newID, now) ==
    LET offset == (req.Page - 1) * req.PageSize IN
    ListResult(FindAvailableItems(tbl, req.PageSize, offset, order, newID, now),
               "failed to find available items",
               Query("FindAvailableItems", <<>>, req.PageSize, offset),
               req.Page, req.PageSize)

\* ------------------------------------------- the list use cases alone
\* Bounds of the list specification: rows in the table, and the ids the list
\* calls may draw in one behaviour.
MaxRows == 3
MaxListIDs == 3

SkuC == <<"e","f","-","3">>
SkuD == <<"g","h","-","4">>
HomeGoods == <<"H","o","m","e"," ","G","o","o","d","s">>

\* The CreateItem requests the rows of the table come from: two available
\* items of one category (one of them activated by Save), a draft, and an
\* item out of stock whose category name has a space and capitals.
ListRequests ==
    {Request(SkuA, 500, Toys, 5), Request(SkuB, 2000, Electronics, 3),
     Request(SkuC, 500, HomeGoods, 0), Request(SkuD, 2000, Toys, 150)}

\* The table after CreateItem has served the requests rs one after another.
RECURSIVE BuildTable(_)
BuildTable(rs) ==
    IF rs = <<>> THEN <<>>
    ELSE LET n == Len(rs)
             tbl == BuildTable(SubSeq(rs, 1, n - 1))
             p == CreateItemPrepare(tbl, rs[n], TRUE, [ok |-> TRUE, price |-> rs[n].Price], n, n)
         IN  IF IsErr(p.err) THEN tbl ELSE Save(tbl, p.item, n).tbl

ListTables ==
    {BuildTable(rs) :
        rs \in {s \in UNION {[1..n -> ListRequests] : n \in 0..MaxRows} :
                    \A i, j \in DOMAIN s : i # j => s[i].SKU # s[j].SKU}}

Queries == {<<>>, <<"p","e">>, <<"a","b">>, <<"'">>}
CategoryFilters == {<<>>, Toys, <<" ","h","o","m","e"," ","g","o","o","d","s">>, <<" ">>}
StatusFilters == {<<>>, <<"A","c","t","i","v","e">>, <<"b","o","g","u","s">>}
Pages == {0, 1, 2}
PageSizes == {0 - 1, 0, 1, 2}

SearchRequests ==
    [Query : Queries, Category : CategoryFilters, Status : StatusFilters,
     Page : Pages, PageSize : PageSizes]

CategoryRequests == [Category : CategoryFilters, Page : Pages, PageSize : PageSizes]

PageRequests == [Page : Pages, PageSize : PageSizes]

InitList ==
    /\ store \in ListTables
    /\ nextID = MaxRows + 1
    /\ clock = MaxRows + 1
    /\ pc = [w \in Workers |-> "idle"]
    /\ cur = [w \in Workers |-> Idle]
    /\ last = NoCall
    /\ created = {}
    /\ deleted = {}

\* A list use case returns (or panics).
ListAnswer(w, op, req, r) ==
    /\ nextID + r.ids <= MaxRows + MaxListIDs + 1
    /\ last' = Call(w, op, req, r.err, r.resp, r.calls)
    /\ nextID' = nextID + r.ids
    /\ clock' = clock + r.ids
    /\ UNCHANGED <<store, pc, cur, created, deleted>>

SearchItems(w) ==
    /\ pc[w] = "idle"
    /\ last = NoCall
    /\ \E req \in SearchRequests, order \in NewestFirst(store) :
         ListAnswer(w, "SearchItems", req, SearchItemsResult(store, req, order, nextID, clock))

GetItemsByCategory(w) ==
    /\ pc[w] = "idle"
    /\ last = NoCall
    /\ \E req \in CategoryRequests, order \in NewestFirst(store) :
         ListAnswer(w, "GetItemsByCategory", req,
                    GetItemsByCategoryResult(store, req, order, nextID, clock))

GetAvailableItems(w) ==
    /\ pc[w] = "idle"
    /\ last = NoCall
    /\ \E req \in PageRequests, order \in NewestFirst(store) :
         ListAnswer(w, "GetAvailableItems", req,
                    GetAvailableItemsResult(store, req, order, nextID, clock))

ListNext ==
    \/ Respond
    \/ \E w \in Workers :
        \/ SearchItems(w)
        \/ GetItemsByCategory(w)
        \/ GetAvailableItems(w)

ListSpec == InitList /\ [][ListNext]_vars

\* ------------------------------------------- the domain package alone
\* Bounds of the domain specification: the readings of the clock and the
\* images an item holds.
MaxClock == 2
MaxImages == 2

\* The entity mutators of Item that the use cases above do not call
SetName(it, name, now) == [it EXCEPT !.name = name, !.updatedAt = now]
SetDescription(it, desc, now) == [it EXCEPT !.description = desc, !.updatedAt = now]
SetCategory(it, category, now) == [it EXCEPT !.category = category, !.updatedAt = now]
SetImages(it, images, now) == [it EXCEPT !.images = images, !.updatedAt = now]
ClearImages(it, now) == [it EXCEPT !.images = <<>>, !.updatedAt = now]

Statuses == {"StatusActive", "StatusInactive", "StatusDraft", "StatusArchived"}

\* time.Now(): a reading is not earlier than the reading before it, and may
\* be equal to it at the resolution of the clock.
Readings == {t \in {clock, clock + 1} : t <= MaxClock}

\* Strings given to NewSKU: valid ones, with lower case and surrounding
\* space, at both ends of the length range, and the three ways to fail.
SKUInputs ==
    {<<>>, <<" ">>, <<"a","b">>, <<"a","b","c">>, <<" ","a","b","-","1"," ">>,
     <<"A","_","9">>, <<"a","b"," ","1">>, <<"a","b","-","!">>, <<"a","!">>,
     <<SmallEAcute, SmallEAcute>>, <<"a","b",SmallEAcute>>,
     Repeat("a", MaxSKULen), Repeat("a", MaxSKULen + 1),
     Repeat("a", MaxSKULen - 1) \o <<SmallEAcute>>, Repeat("!", MaxSKULen + 1)}

\* Arguments of NewItem and of the mutators
EntityNames == {<<>>, <<" ">>, ItemName}
NewNames == {<<>>, <<"c","a","p">>}
\* Names given to NewCategory: empty, blank, plain, and one with capitals, a
\* space inside and spaces around.
CategoryInputs ==
    {<<>>, <<" ">>, Electronics, <<" ","H","o","m","e"," ","G","o","o","d","s"," ">>}
ImageA == NewImage(<<"u">>, <<>>, TRUE).val

\* No item has been built yet.
NoEntity == nextID = 1 /\ \A w \in Workers : cur[w] = Idle

\* The item the worker holds
Entity(w) == cur[w].item

\* A call of the domain package returns; the worker keeps the item itm.
DomainReturn(w, op, req, err, resp, itm, now, ids) ==
    /\ last' = Call(w, op, req, err, resp, <<>>)
    /\ cur' = [cur EXCEPT ![w] = IF itm = NoItem THEN Idle
                                 ELSE InFlight("entity", NoRequest, itm, <<>>)]
    /\ clock' = now
    /\ nextID' = nextID + ids
    /\ UNCHANGED <<store, pc, created, deleted>>

\* A mutator has run on the item the worker holds.
Mutate(w, op, arg, after, now) ==
    DomainReturn(w, op, [before |-> Entity(w), arg |-> arg], NoErr, after, after, now, 0)

NewSKUCall(w) ==
    /\ NoEntity
    /\ \E x \in SKUInputs :
         LET r == NewSKU(x) IN
         DomainReturn(w, "NewSKU", [arg |-> x], r.err, r.val, NoItem, clock, 0)

NewItemCall(w) ==
    /\ NoEntity
    /\ \E name \in EntityNames, now \in Readings :
         LET r == NewItem(nextID, NewSKU(SkuA).val, name, <<>>,
                          NewPrice(50000, USD).val, NewCategory(Toys).val, now)
         IN  DomainReturn(w, "NewItem", [name |-> name, now |-> now], r.err, r.val, r.val, now,
                          IF IsErr(r.err) THEN 0 ELSE 1)

SetNameCall(w) ==
    /\ Entity(w) # NoItem
    /\ \E name \in NewNames, now \in Readings :
         Mutate(w, "SetName", name, SetName(Entity(w), name, now), now)

SetDescriptionCall(w) ==
    /\ Entity(w) # NoItem
    /\ \E now \in Readings :
         Mutate(w, "SetDescription", <<"d">>, SetDescription(Entity(w), <<"d">>, now), now)

SetPriceCall(w) ==
    /\ Entity(w) # NoItem
    /\ \E now \in Readings :
         LET price == NewPrice(100, USD).val IN
         Mutate(w, "SetPrice", price, SetPrice(Entity(w), price, now), now)

SetCategoryCall(w) ==
    /\ Entity(w) # NoItem
    /\ \E n \in CategoryInputs, now \in Readings :
         LET category == NewCategory(n) IN
         /\ ~IsErr(category.err)
         /\ Mutate(w, "SetCategory", category.val,
                   SetCategory(Entity(w), category.val, now), now)

SetInventoryCall(w) ==
    /\ Entity(w) # NoItem
    /\ \E q \in {0, 7}, now \in Readings :
         Mutate(w, "SetInventory", q, SetInventory(Entity(w), NewInventory(q).val, now), now)

SetStatusCall(w) ==
    /\ Entity(w) # NoItem
    /\ \E status \in Statuses, now \in Readings :
         Mutate(w, "SetStatus", status, SetStatus(Entity(w), status, now), now)

SetImagesCall(w) ==
    /\ Entity(w) # NoItem
    /\ \E images \in {<<>>, <<ImageA>>}, now \in Readings :
         Mutate(w, "SetImages", images, SetImages(Entity(w), images, now), now)

AddImageEntityCall(w) ==
    /\ Entity(w) # NoItem
    /\ Len(Entity(w).images) < MaxImages
    /\ \E now \in Readings :
         Mutate(w, "AddImage", ImageA, AddImage(Entity(w), ImageA, now), now)

ClearImagesCall(w) ==
    /\ Entity(w) # NoItem
    /\ \E now \in Readings :
         Mutate(w, "ClearImages", <<>>, ClearImages(Entity(w), now), now)

\* ---- NewPrice on a float64 amount
\* The amounts NewPrice is applied to below are decimal literals with at most
\* three fractional digits, given in thousandths (19990 is 19.99), from
\* -0.001 to 20.000. float64 has no exact value for most of them: the
\* literal is rounded to the nearest float64, the product amount * 100 is
\* rounded again, and int64() drops the fraction of what is left. For the
\* whole numbers of cents in LoweredCents the product lies just below the
\* whole number (19.99 * 100 is 1998.9999999999998), so int64() gives one
\* cent less; for every other amount of the range it gives the decimal
\* amount's whole cents.
LoweredCents ==
    {29, 57, 58, 113, 114, 115, 116, 201, 203, 205, 207, 226,
     228, 230, 232, 251, 253, 255, 402, 406, 410, 414, 427, 431,
     435, 439, 452, 456, 460, 464, 477, 481, 485, 489, 502, 506,
     510, 803, 804, 812, 820, 828, 829, 837, 845, 853, 854, 862,
     870, 878, 879, 887, 895, 903, 904, 912, 920, 928, 929, 937,
     945, 953, 954, 962, 970, 978, 979, 987, 995, 1003, 1004, 1012,
     1020, 1606, 1608, 1615, 1624, 1631, 1633, 1640, 1649, 1656, 1658, 1665,
     1674, 1681, 1683, 1690, 1699, 1706, 1708, 1715, 1724, 1731, 1733, 1740,
     1749, 1756, 1758, 1765, 1774, 1781, 1783, 1790, 1799, 1806, 1808, 1815,
     1824, 1831, 1833, 1840, 1849, 1856, 1858, 1865, 1874, 1881, 1883, 1890,
     1899, 1906, 1908, 1915, 1924, 1931, 1933, 1940, 1949, 1956, 1958, 1965,
     1974, 1981, 1983, 1990, 1999}

\* int64(amount * 100) for the float64 amount nearest to milli / 1000
Int64Times100(milli) ==
    IF milli % 10 = 0 /\ (milli \div 10) \in LoweredCents
    THEN (milli \div 10) - 1
    ELSE milli \div 10

\* NewPrice(amount, currency) with amount = milli / 1000
NewPriceFloat(milli, currency) ==
    IF milli < 0
    THEN [val |-> [amount |-> 0, currency |-> <<>>], err |-> NewDomainError("price cannot be negative")]
    ELSE [val |-> [amount |-> Int64Times100(milli), currency |-> NormalizeCurrency(currency)],
          err |-> NoErr]

\* Price.Amount(), in thousandths: float64(p.amount) / 100
Amount(price) == price.amount * 10

PriceAmounts == {-1, 0, 290, 1000, 19990, 19995, 19999}
PriceCurrencies == {<<>>, <<"u","s","d">>, <<"E","U","R">>}

NewPriceCall(w) ==
    /\ NoEntity
    /\ \E milli \in PriceAmounts, currency \in PriceCurrencies :
         LET r == NewPriceFloat(milli, currency) IN
         DomainReturn(w, "NewPrice", [amount |-> milli, currency |-> currency],
                      r.err, r.val, NoItem, clock, 0)

\* ---- Inventory
\* Inventory.IsAvailable
IsAvailable(inv) == inv > 0

CanReserveStrict(inv, quantity) == inv > quantity

\* Inventory.CanReserve
CanReserve(inv, quantity) == inv >= quantity

InventoryQuantities == {-1, 0, 1, 2}
ReserveQuantities == {0, 1, 2, 3}

\* NewInventory(q), and on success the two readings of the value it returns
NewInventoryCall(w) ==
    /\ NoEntity
    /\ \E q \in InventoryQuantities, n \in ReserveQuantities :
         LET r == NewInventory(q) IN
         DomainReturn(w, "NewInventory", [quantity |-> q, reserve |-> n], r.err,
                      [inventory |-> r.val,
                       IsAvailable |-> ~IsErr(r.err) /\ IsAvailable(r.val),
                       CanReserve |-> ~IsErr(r.err) /\ CanReserve(r.val, n)],
                      NoItem, clock, 0)

\* ---- Category
NewCategoryCall(w) ==
    /\ NoEntity
    /\ \E n \in CategoryInputs :
         LET r == NewCategory(n) IN
         DomainReturn(w, "NewCategory", [arg |-> n], r.err, r.val, NoItem, clock, 0)

\* The caller saves the item it holds. Save works on the caller's pointer:
\* the corrections it applies reach the item; once the row is written the
\* caller is done with the item.
SaveEntityCall(w) ==
    /\ Entity(w) # NoItem
    /\ \E now \in Readings :
         LET r == Save(store, Entity(w), now) IN
         /\ store' = r.tbl
         /\ last' = Call(w, "Save", [before |-> Entity(w)], r.err, r.item, <<>>)
         /\ cur' = [cur EXCEPT ![w] = IF IsErr(r.err)
                                      THEN InFlight("entity", NoRequest, r.item, <<>>)
                                      ELSE Idle]
         /\ clock' = now
         /\ UNCHANGED <<nextID, pc, created, deleted>>

\* ---- Attributes
\* An Attributes value holds a reference to a map. data is the contents of
\* that map. A map handed out by All is [data, alias]: its contents, and
\* whether it is the very map the Attributes value holds.
NewAttributes == <<>>

\* Attributes.Get
AttributesGet(attrs, key) ==
    IF key \in DOMAIN attrs THEN [value |-> attrs[key], exists |-> TRUE]
    ELSE [value |-> <<>>, exists |-> FALSE]

AttributesAllLiveView(attrs) == [has |-> TRUE, alias |-> TRUE, data |-> attrs]

\* Attributes.All: a new map filled from the one held
AttributesAll(attrs) ==
    [has |-> TRUE, alias |-> FALSE, data |-> [k \in DOMAIN attrs |-> attrs[k]]]

\* m[key] = value on a Go map
MapAssign(m, key, value) == [x \in (DOMAIN m) \cup {key} |-> IF x = key THEN value ELSE m[x]]

NoMap == [has |-> FALSE, alias |-> FALSE, data |-> <<>>]
AttributeKeys == {<<>>, <<" ">>, <<"k">>, <<" ","k"," ">>, <<"j">>}
AttributeValues == {<<>>, <<"v">>, <<" ","w"," ">>}

\* The worker holds an Attributes value and the map All last gave it.
HoldsAttributes(w) == cur[w].op = "attributes"
Held(w) == cur[w].req

AttributesReturn(w, op, req, err, resp, data, result) ==
    /\ last' = Call(w, op, req, err, resp, <<>>)
    /\ cur' = [cur EXCEPT ![w] = InFlight("attributes", [data |-> data, result |-> result],
                                          NoItem, <<>>)]
    /\ UNCHANGED <<store, nextID, clock, pc, created, deleted>>

NewAttributesCall(w) ==
    /\ NoEntity
    /\ AttributesReturn(w, "NewAttributes", NoRequest, NoErr, NewAttributes, NewAttributes, NoMap)

AttributesSetCall(w) ==
    /\ HoldsAttributes(w)
    /\ \E key \in AttributeKeys, value \in AttributeValues :
         LET r == AttributesSet(Held(w).data, key, value)
             result == IF Held(w).result.alias THEN [Held(w).result EXCEPT !.data = r.val]
                       ELSE Held(w).result
         IN  AttributesReturn(w, "Attributes.Set",
                              [before |-> Held(w).data, key |-> key, value |-> value],
                              r.err, r.val, r.val, result)

AttributesGetCall(w) ==
    /\ HoldsAttributes(w)
    /\ \E key \in AttributeKeys :
         AttributesReturn(w, "Attributes.Get", [data |-> Held(w).data, key |-> key], NoErr,
                          AttributesGet(Held(w).data, key), Held(w).data, Held(w).result)

AttributesAllCall(w) ==
    /\ HoldsAttributes(w)
    /\ LET result == AttributesAll(Held(w).data) IN
       AttributesReturn(w, "Attributes.All", [data |-> Held(w).data], NoErr, result.data,
                        Held(w).data, result)

\* The caller assigns to a key of the map All gave it.
WriteReturnedMap(w) ==
    /\ HoldsAttributes(w)
    /\ Held(w).result.has
    /\ \E key \in {<<"k">>, <<"j">>}, value \in {<<"v">>, <<"x">>} :
         LET written == MapAssign(Held(w).result.data, key, value)
             data == IF Held(w).result.alias THEN written ELSE Held(w).data
         IN  AttributesReturn(w, "write", [before |-> Held(w).data, key |-> key, value |-> value],
                              NoErr, written, data, [Held(w).result EXCEPT !.data = written])

\* ---- Status
\* Strings given to StatusFromString: the four names in lower, upper and
\* mixed case, and strings that are no status name in any case.
StatusInputs ==
    {<<"a","c","t","i","v","e">>, <<"A","C","T","I","V","E">>, <<"A","c","t","i","v","e">>,
     <<"i","n","a","c","t","i","v","e">>, <<"I","n","A","c","t","i","v","e">>,
     <<"d","r","a","f","t">>, <<"D","R","A","F","T">>,
     <<"a","r","c","h","i","v","e","d">>, <<"a","r","c","h","i","v","e","D">>,
     <<>>, <<" ","a","c","t","i","v","e">>, <<"a","c","t","i","v","e","s">>,
     <<"a","c","t","i","v",SmallEAcute>>, <<"u","n","k","n","o","w","n">>,
     <<"d","e","l","e","t","e","d">>}

\* StatusFromString(str), String() of the status it returns, and
\* StatusFromString of that string
StatusFromStringCall(w) ==
    /\ NoEntity
    /\ \E str \in StatusInputs :
         LET r == StatusFromString(str) IN
         DomainReturn(w, "StatusFromString", [arg |-> str], r.err,
                      [status |-> r.val, String |-> StatusString(r.val),
                       back |-> StatusFromString(StatusString(r.val))],
                      NoItem, clock, 0)

DomainNext ==
    \E w \in Workers :
        \/ NewSKUCall(w)
        \/ NewItemCall(w)
        \/ SetNameCall(w)
        \/ SetDescriptionCall(w)
        \/ SetPriceCall(w)
        \/ SetCategoryCall(w)
        \/ SetInventoryCall(w)
        \/ SetStatusCall(w)
        \/ SetImagesCall(w)
        \/ AddImageEntityCall(w)
        \/ ClearImagesCall(w)
        \/ NewPriceCall(w)
        \/ NewInventoryCall(w)
        \/ NewCategoryCall(w)
        \/ SaveEntityCall(w)
        \/ NewAttributesCall(w)
        \/ AttributesSetCall(w)
        \/ AttributesGetCall(w)
        \/ AttributesAllCall(w)
        \/ WriteReturnedMap(w)
        \/ StatusFromStringCall(w)

DomainSpec == Init /\ [][DomainNext]_vars

\* ------------------------------------------------------- error kinds
\* The code has no error kinds; a kind is read off the message of the
\* innermost error, whatever contexts are wrapped around it.
NotFoundMessages == {"item with ID %s not found", "item with SKU %s not found"}
DuplicateKeyMessages ==
    {"item with this SKU already exists",
     "pq: duplicate key value violates unique constraint items_sku_key"}
ValidationMessages ==
    {"item name must be at least 3 characters", "item price must be positive",
     "item price too high", "SKU is required", "SKU must be between 3 and 50 characters",
     "category is required", "category service: rejected",
     "SKU cannot be empty", "SKU must be between 3 and 20 characters",
     "SKU can only contain uppercase letters, numbers, hyphens, and underscores",
     "price cannot be negative", "category name cannot be empty",
     "item name cannot be empty", "inventory quantity cannot be negative",
     "inventory quantity too high", "image URL cannot be empty", "image URL is required",
     "image URL too long", "attribute key cannot be empty", "attribute value too long",
     "invalid item ID format", "item ID cannot be empty", "invalid status: "}

IsNotFound(e) == e.msg \in NotFoundMessages
IsDuplicateKey(e) == e.msg \in DuplicateKeyMessages
IsValidationError(e) == e.msg \in ValidationMessages

Succeeded(c) == c.op # "none" /\ ~IsErr(c.err)
Failed(c) == c.op # "none" /\ IsErr(c.err)
Called(c, method) == \E i \in DOMAIN c.calls : c.calls[i] = method

\* ---------------------------------------------------------------- C1
\* C1: in every interleaving of concurrent CreateItem calls, each split into
\* its pre-check and its Save, the store never holds two items with the same
\* SKU, and of the calls with the same SKU at most one has succeeded, unless
\* the item of an earlier one has been deleted since.
C1_UniqueSKU ==
    /\ \A i, j \in DOMAIN store : i # j => store[i].sku # store[j].sku
    /\ \A a, b \in created :
          (a.ID # b.ID /\ a.SKU = b.SKU) => (a.ID \in deleted \/ b.ID \in deleted)

\* Two CreateItem calls with the same SKU have overlapped: the one that
\* started first is about to call Save, the other has already saved.
C1_Witness ==
    \E w \in Workers : \E k \in DOMAIN store :
        /\ pc[w] = "Save"
        /\ cur[w].item.sku = store[k].sku
        /\ cur[w].item.id < k
        /\ \E r \in created : r.ID = k

\* ---------------------------------------------------------------- C2
\* The SKU a CreateItem call that returned was asked to create, as stored
StoredSKUOf(c) == NewSKU(c.req.req.SKU).val

\* The rows with the SKU of the CreateItem call that returned, its own apart
OtherRowsWithSKU(c) ==
    {k \in DOMAIN store :
        /\ store[k].sku = StoredSKUOf(c)
        /\ Succeeded(c) => k # c.resp.ID}

\* C2: a CreateItem call whose request passed the input checks, whose
\* collaborators answered with a category accepted and a price that is not
\* negative, and whose SKU is stored already fails with the DuplicateKey
\* kind, whether the pre-check or Save caught it, and no second item with the
\* SKU is stored.
C2_DuplicateRejected ==
    (/\ last.op = "CreateItem"
     /\ Called(last, "ExistsBySKU")
     /\ last.req.answers.calc.price >= 0
     /\ OtherRowsWithSKU(last) # {})
        => /\ Failed(last)
           /\ IsDuplicateKey(last.err)
           /\ Cardinality(OtherRowsWithSKU(last)) = 1

\* A CreateItem call for a stored SKU has failed in Save, and not as a
\* duplicate.
C2_Witness ==
    /\ last.op = "CreateItem"
    /\ Called(last, "Save")
    /\ OtherRowsWithSKU(last) # {}
    /\ Failed(last)
    /\ ~IsDuplicateKey(last.err)

\* ---------------------------------------------------------------- C3
\* The item agrees with row k of the table in every field the row holds.
SameAsRow(itm, k) ==
    /\ itm.id = k
    /\ itm.sku = store[k].sku
    /\ itm.name = store[k].name
    /\ itm.price.amount = store[k].price_amount
    /\ itm.category.name = store[k].category_name
    /\ itm.category.slug = store[k].category_slug
    /\ itm.inventory = store[k].inventory_quantity
    /\ itm.images = store[k].images
    /\ itm.attributes = store[k].attributes
    /\ StatusString(itm.status) = store[k].status

\* C3: for every item Save has stored, FindByID on its id and FindBySKU on
\* its SKU return an item equal to it in id, SKU, name, price, category name
\* and slug, inventory, images, attributes and status.
C3_RoundTrip ==
    \A k \in DOMAIN store :
        LET byID == FindByID(store, k, nextID, clock)
            bySKU == FindBySKU(store, store[k].sku, nextID, clock)
        IN  /\ ~IsErr(byID.err) /\ SameAsRow(byID.val, k)
            /\ ~IsErr(bySKU.err) /\ SameAsRow(bySKU.val, k)

\* GetItemBySKU has answered for a stored item with another id than the
\* item's.
C3_Witness ==
    /\ last.op = "GetItemBySKU"
    /\ Succeeded(last)
    /\ \E k \in DOMAIN store : store[k].sku = last.resp.SKU /\ k # last.resp.ID

\* ---------------------------------------------------------------- C4
SimpleMutations == {"UpdateInventory", "ActivateItem", "DeactivateItem", "AddImage"}

\* The arguments C4 speaks of
ArgumentsInRange(c) ==
    CASE c.op = "UpdateInventory" -> c.req.Quantity >= 0 /\ c.req.Quantity <= MaxInventoryQuantity
      [] c.op = "AddImage" -> c.req.URL # <<>> /\ ByteLen(c.req.URL) <= MaxImageURLLen
      [] OTHER -> TRUE

\* The stored item shows what the call asked for.
MutationStored(c) ==
    LET row == store[c.req.id.uuid] IN
    CASE c.op = "UpdateInventory" -> row.inventory_quantity = c.req.Quantity
      [] c.op = "ActivateItem" -> row.status = StatusString("StatusActive")
      [] c.op = "DeactivateItem" -> row.status = StatusString("StatusInactive")
      [] c.op = "AddImage" ->
            /\ row.images # <<>>
            /\ row.images[Len(row.images)].url = c.req.URL
      [] OTHER -> FALSE

\* C4: on an item that exists, UpdateInventory with a quantity in 0..999999,
\* ActivateItem, DeactivateItem and AddImage with a non-empty URL succeed, and
\* the stored item then has that quantity, is Active, is Inactive, has the
\* image as its last.
C4_MutationsPersist ==
    (last.op \in SimpleMutations /\ last.req.id.uuid \in DOMAIN store /\ ArgumentsInRange(last))
        => (Succeeded(last) /\ MutationStored(last))

\* UpdateInventory on an item that exists, with a quantity in range, has
\* called Update and failed as not found.
C4_Witness ==
    /\ last.op = "UpdateInventory"
    /\ last.req.id.uuid \in DOMAIN store
    /\ ArgumentsInRange(last)
    /\ Called(last, "Update")
    /\ IsNotFound(last.err)

\* ---------------------------------------------------------------- C5
LoadingMutations ==
    {"UpdateInventory", "UpdateItem", "AddImage", "ActivateItem", "DeactivateItem"}

\* Worker w begins a call in this step: it goes on to a repository write, or
\* the call returns at once.
Begins(w) ==
    /\ pc[w] = "idle"
    /\ last = NoCall
    /\ pc'[w] # "idle" \/ (last' # NoCall /\ last'.w = w)

\* The operation and the request of the call w begins in this step
BegunOp(w) == IF pc'[w] # "idle" THEN cur'[w].op ELSE last'.op
BegunReq(w) == IF pc'[w] # "idle" THEN cur'[w].req ELSE last'.req

\* C5: UpdateInventory, UpdateItem, AddImage, ActivateItem and DeactivateItem
\* called with a well-formed id of no stored item return with the NotFound
\* kind, without a call of Update, and leave the store as it was.
C5_AbsentNotFound ==
    [][\A w \in Workers :
          (/\ Begins(w)
           /\ BegunOp(w) \in LoadingMutations
           /\ BegunReq(w).id.uuid # BadID
           /\ BegunReq(w).id.uuid \notin DOMAIN store)
              => /\ pc'[w] = "idle"
                 /\ Failed(last')
                 /\ IsNotFound(last'.err)
                 /\ ~Called(last', "Update")
                 /\ store' = store]_vars

\* A mutating call on a well-formed id of no stored item has returned, while
\* the store holds another item.
C5_Witness ==
    /\ last.op \in LoadingMutations
    /\ last.req.id.uuid # BadID
    /\ last.req.id.uuid \notin DOMAIN store
    /\ last.calls = <<"FindByID">>
    /\ IsNotFound(last.err)
    /\ store # <<>>

\* ---------------------------------------------------------------- C6
\* What a DeleteItem call with a well-formed id does in its step
DeleteItemStep(w) ==
    (/\ last = NoCall
     /\ last'.op = "DeleteItem"
     /\ last'.w = w
     /\ last'.req.id.uuid # BadID)
        => LET id == last'.req.id.uuid IN
           IF id \notin DOMAIN store
           THEN /\ Failed(last')
                /\ IsNotFound(last'.err)
                /\ store' = store
           ELSE /\ Succeeded(last')
                /\ DOMAIN store' = (DOMAIN store) \ {id}
                /\ \A k \in DOMAIN store' : store'[k] = store[k]

\* Once DeleteItem has deleted an item, its id is in no row, FindByID on it
\* fails as not found, and so has every GetItemByID that asked for it.
DeletedStayAbsent ==
    /\ \A id \in deleted :
          /\ id \notin DOMAIN store
          /\ IsNotFound(FindByID(store, id, nextID, clock).err)
    /\ (last.op = "GetItemByID" /\ last.req.id \in {IDString(id) : id \in deleted})
          => (Failed(last) /\ IsNotFound(last.err))

\* C6: DeleteItem on a well-formed id of no stored item fails with the
\* NotFound kind and leaves the store as it was; on the id of a stored item
\* it succeeds and removes that item and no other, and every later FindByID
\* and GetItemByID of the id fails with the NotFound kind.
C6_Delete ==
    /\ [][\A w \in Workers : DeleteItemStep(w)]_vars
    /\ []DeletedStayAbsent

\* GetItemByID has been asked for the id of a deleted item, while another
\* item is still stored.
C6_Witness ==
    /\ last.op = "GetItemByID"
    /\ last.req.id \in {IDString(id) : id \in deleted}
    /\ IsNotFound(last.err)
    /\ store # <<>>

\* ---------------------------------------------------------------- C7
\* C7: UpdateInventory with a negative quantity on an item that exists
\* returns a validation error saying "cannot be negative", without a call of
\* Update, and leaves the stored item as it was.
C7_NegativeQuantity ==
    [][\A w \in Workers :
          (/\ Begins(w)
           /\ BegunOp(w) = "UpdateInventory"
           /\ BegunReq(w).id.uuid \in DOMAIN store
           /\ BegunReq(w).Quantity < 0)
              => /\ pc'[w] = "idle"
                 /\ Failed(last')
                 /\ IsValidationError(last'.err)
                 /\ last'.err.msg = "inventory quantity cannot be negative"
                 /\ ~Called(last', "Update")
                 /\ store' = store]_vars

\* UpdateInventory with a negative quantity has returned for a stored item.
C7_Witness ==
    /\ last.op = "UpdateInventory"
    /\ last.req.id.uuid \in DOMAIN store
    /\ last.req.Quantity < 0
    /\ last.calls = <<"FindByID">>
    /\ last.err.msg = "inventory quantity cannot be negative"

\* ---------------------------------------------------------------- C8
\* The request of the CreateItem call c is one C8 speaks of; lengths are
\* counted in characters.
RequestOutOfRange(c) ==
    LET r == c.req.req IN
    \/ Len(r.Name) < MinNameLen
    \/ r.Price <= 0
    \/ r.Price > MaxUseCasePrice
    \/ r.SKU = <<>>
    \/ Len(r.SKU) < MinUseCaseSKULen
    \/ Len(r.SKU) > MaxUseCaseSKULen
    \/ r.Category = <<>>
    \/ ~c.req.answers.catOK

\* C8: CreateItem fails with a validation error, without a call of Save,
\* when the name is shorter than 3 characters, the price is not positive or
\* is over the ceiling, the SKU is empty or not 3 to 50 characters long, the
\* category is empty, or the category collaborator rejects the category.
C8_InputRejected ==
    (last.op = "CreateItem" /\ RequestOutOfRange(last))
        => (Failed(last) /\ IsValidationError(last.err) /\ ~Called(last, "Save"))

\* CreateItem has stored an item whose name is two characters long.
C8_Witness ==
    /\ last.op = "CreateItem"
    /\ Succeeded(last)
    /\ Len(last.req.req.Name) < MinNameLen
    /\ last.resp.ID \in DOMAIN store
    /\ store[last.resp.ID].name = last.req.req.Name

\* ---------------------------------------------------------------- C9
\* The status C9 names for the request of the CreateItem call c
StatusForPrice(c) ==
    IF c.req.req.Price > DraftPriceThreshold
    THEN StatusString("StatusDraft")
    ELSE StatusString("StatusActive")

\* C9: after a CreateItem call that succeeded, the status in the response
\* and in the store is Draft when the requested price is over 1000 and Active
\* otherwise, whatever the requested inventory.
C9_InitialStatus ==
    (last.op = "CreateItem" /\ Succeeded(last))
        => /\ last.resp.Status = StatusForPrice(last)
           /\ store[last.resp.ID].status = StatusForPrice(last)

\* CreateItem has answered Active for a requested price over 1000.
C9_Witness ==
    /\ last.op = "CreateItem"
    /\ Succeeded(last)
    /\ last.req.req.Price > DraftPriceThreshold
    /\ last.resp.Status = StatusString("StatusActive")
    /\ store[last.resp.ID].status = StatusString("StatusActive")

\* --------------------------------------------------------------- C10
\* C10: after a CreateItem call that succeeded with a requested inventory n
\* that is not negative, the quantity in the response and in the store is n.
C10_InitialInventory ==
    (last.op = "CreateItem" /\ Succeeded(last) /\ last.req.req.Inventory >= 0)
        => /\ last.resp.Inventory.Quantity = last.req.req.Inventory
           /\ store[last.resp.ID].inventory_quantity = last.req.req.Inventory

\* CreateItem has answered with another quantity than the one requested.
C10_Witness ==
    /\ last.op = "CreateItem"
    /\ Succeeded(last)
    /\ last.req.req.Inventory >= 0
    /\ last.resp.Inventory.Quantity # last.req.req.Inventory
    /\ store[last.resp.ID].inventory_quantity = last.resp.Inventory.Quantity

\* ------------------------------------------------------------------ C11
\* The query the priority order of the request fields selects
PriorityMethod(req) ==
    IF req.Query # <<>> THEN "Search"
    ELSE IF req.Category # <<>> THEN "FindByCategory"
    ELSE IF req.Status # <<>> THEN "FindByStatus"
    ELSE "FindAvailableItems"

\* The one query of call c is the one the priority order selects, with
\* limit = PageSize and offset = (Page - 1) * PageSize.
IssuedByPriority(c) ==
    /\ c.calls[1].method = PriorityMethod(c.req)
    /\ c.calls[1].limit = c.req.PageSize
    /\ c.calls[1].offset = (c.req.Page - 1) * c.req.PageSize

\* The filter value the priority order selects cannot be turned into a
\* category or a status.
FilterRejected(req) ==
    \/ PriorityMethod(req) = "FindByCategory" /\ TrimSpace(req.Category) = <<>>
    \/ PriorityMethod(req) = "FindByStatus"
       /\ ToLower(req.Status) \notin {StatusString(s) : s \in {"StatusActive", "StatusInactive",
                                                                "StatusDraft", "StatusArchived"}}

\* C11 as stated: every SearchItems call issues exactly one repository query,
\* the one its request selects by the priority Query, Category, Status,
\* available items, with limit = PageSize and offset = (Page - 1) * PageSize.
C11_ExactlyOneQuery ==
    last.op = "SearchItems" => Len(last.calls) = 1 /\ IssuedByPriority(last)

\* C11 amended: a SearchItems call issues at most one repository query; it
\* issues none exactly when the filter the priority order selects is a blank
\* category or an unknown status, and then it returns an error; the query it
\* issues is the one selected by the priority Query, Category, Status,
\* available items, with limit = PageSize and offset = (Page - 1) * PageSize.
C11_Dispatch ==
    last.op = "SearchItems" =>
        /\ Len(last.calls) <= 1
        /\ Len(last.calls) = 0 <=> FilterRejected(last.req)
        /\ Len(last.calls) = 0 => IsErr(last.err)
        /\ Len(last.calls) = 1 => IssuedByPriority(last)

\* A request with Category and Status set and no Query was answered from
\* FindByCategory with a page of items taken at an offset.
C11_Witness ==
    /\ last.op = "SearchItems"
    /\ last.req.Query = <<>> /\ last.req.Category # <<>> /\ last.req.Status # <<>>
    /\ Len(last.calls) = 1
    /\ last.calls[1].method = "FindByCategory"
    /\ last.calls[1].offset = 1
    /\ ~IsErr(last.err)
    /\ last.resp # Panicked
    /\ last.resp.Total = 1

\* ------------------------------------------------------------------ C12
\* A SearchItems call with only Category set, to a category that has a slug,
\* for a page the request DTO admits (Page >= 1, PageSize >= 1)
CategoryOnly(c) ==
    /\ c.op = "SearchItems"
    /\ c.req.Query = <<>> /\ c.req.Status = <<>>
    /\ TrimSpace(c.req.Category) # <<>>
    /\ c.req.Page >= 1 /\ c.req.PageSize >= 1

\* The stored row a response item stands for: the row with its SKU
RowOf(tbl, r) == CHOOSE k \in DOMAIN tbl : tbl[k].sku = r.SKU

ListOps == {"SearchItems", "GetItemsByCategory", "GetAvailableItems"}

\* The call returned a list response.
ListReturned(c) == c.op \in ListOps /\ ~IsErr(c.err) /\ c.resp # Panicked

\* C13: every list response of SearchItems, GetItemsByCategory and
\* GetAvailableItems carries the requested Page and PageSize, Total equal to
\* the number of items of the returned page, and TotalPages equal to
\* Total / PageSize rounded up, which is at most 1.
C13_PageCounts ==
    ListReturned(last) =>
        /\ last.resp.Page = last.req.Page
        /\ last.resp.PageSize = last.req.PageSize
        /\ last.resp.Total = Len(last.resp.Items)
        /\ last.resp.PageSize >= 1
        /\ last.resp.TotalPages * last.resp.PageSize >= last.resp.Total
        /\ (last.resp.TotalPages - 1) * last.resp.PageSize < last.resp.Total
        /\ last.resp.TotalPages <= 1

\* GetAvailableItems returned the second page of size one while two items are
\* available: Total is 1 and one page is reported.
C13_Witness ==
    /\ ListReturned(last)
    /\ last.op = "GetAvailableItems"
    /\ last.req.Page = 2 /\ last.req.PageSize = 1
    /\ last.resp.Total = 1
    /\ last.resp.TotalPages = 1
    /\ Cardinality({k \in DOMAIN store : store[k].status = StatusString("StatusActive")
                                         /\ store[k].inventory_quantity > 0}) = 2

\* ------------------------------------------------------------------ C14
\* C14: no use-case operation panics: every call, whatever its Page and
\* PageSize, ends with a response or with an error.
C14_NoPanic ==
    last # NoCall => last.resp # Panicked

\* A list call with PageSize = 0 ran its query and then panicked in the
\* division by the page size.
C14_Witness ==
    /\ last.op \in ListOps
    /\ last.req.PageSize = 0
    /\ Len(last.calls) = 1
    /\ last.calls[1].limit = 0
    /\ ~IsErr(last.err)
    /\ last.resp = Panicked

\* ------------------------------------------------------------------ C15
\* The predefined domain errors a caller can test an error against
ErrItemNotFound == NewDomainError("item not found")
ErrItemAlreadyExists == NewDomainError("item already exists")
ErrInvalidSKU == NewDomainError("invalid SKU format")
ErrInvalidPrice == NewDomainError("invalid price")

\* errors.Is(e, target): the chain of %w wrappers is unwrapped down to the
\* cause; no error the code returns is one of the predefined values, so the
\* answer is that of the cause's Is method: DomainError.Is accepts every
\* target that is a DomainError, and the other errors have no Is method.
ErrorsIs(e, target) == IsErr(e) /\ e.domain /\ target.domain

\* The call failed with an error that wraps, with operation context, a cause
\* built by the domain package (a value object's or the repository's
\* DomainError).
FailedWrapped(c) == Failed(c) /\ c.err.wrap # <<>> /\ c.err.domain

\* C15: a use-case error that wraps a repository or value-object error keeps
\* the kind of the cause testable: a wrapped NotFound tests as NotFound and
\* not as ValidationError or DuplicateKey, and likewise a wrapped
\* ValidationError and a wrapped DuplicateKey test as their own kind only.
C15_KindTestable ==
    FailedWrapped(last) =>
        /\ IsNotFound(last.err) =>
              /\ ErrorsIs(last.err, ErrItemNotFound)
              /\ ~ErrorsIs(last.err, ErrInvalidSKU)
              /\ ~ErrorsIs(last.err, ErrInvalidPrice)
              /\ ~ErrorsIs(last.err, ErrItemAlreadyExists)
        /\ IsValidationError(last.err) =>
              /\ ErrorsIs(last.err, ErrInvalidSKU) \/ ErrorsIs(last.err, ErrInvalidPrice)
              /\ ~ErrorsIs(last.err, ErrItemNotFound)
              /\ ~ErrorsIs(last.err, ErrItemAlreadyExists)
        /\ IsDuplicateKey(last.err) =>
              /\ ErrorsIs(last.err, ErrItemAlreadyExists)
              /\ ~ErrorsIs(last.err, ErrItemNotFound)
              /\ ~ErrorsIs(last.err, ErrInvalidSKU)

\* GetItemByID of an absent id returned "failed to find item" wrapping the
\* not-found error, and the error tests as an invalid SKU as well.
C15_Witness ==
    /\ last.op = "GetItemByID"
    /\ FailedWrapped(last)
    /\ IsNotFound(last.err)
    /\ ErrorsIs(last.err, ErrItemNotFound)
    /\ ErrorsIs(last.err, ErrInvalidSKU)
    /\ ErrorsIs(last.err, ErrItemAlreadyExists)

\* ------------------------------------------------------------------ C16
\* The path parameter of the request is empty: the handler answers 400
\* itself and does not call the use case.
ParameterMissing(c) ==
    \/ c.op = "GetItemByID" /\ c.req.id.len = 0
    \/ c.op = "GetItemBySKU" /\ c.req.sku = <<>>

\* The HTTP status the endpoint's handler writes for the outcome c of its use
\* case: each handler has one status for success and one for every error; a
\* panic is turned into 500 by the recovery middleware.
HandlerStatus(c) ==
    IF ParameterMissing(c) THEN 400
    ELSE IF c.op \in {"GetItemByID", "GetItemBySKU"}
         THEN (IF IsErr(c.err) THEN 404 ELSE 200)
    ELSE IF c.op = "CreateItem" THEN (IF IsErr(c.err) THEN 500 ELSE 201)
    ELSE IF c.op \in {"UpdateItem", "UpdateInventory", "AddImage"}
         THEN (IF IsErr(c.err) THEN 500 ELSE 200)
    ELSE IF c.op \in {"DeleteItem", "DeactivateItem", "ActivateItem"}
         THEN (IF IsErr(c.err) THEN 500 ELSE 204)
    ELSE IF IsErr(c.err) \/ c.resp = Panicked THEN 500 ELSE 200

\* The endpoints whose only input is a path parameter: every non-empty
\* parameter reaches the use case (a request body is screened by the DTO
\* validation first).
ParameterEndpoints ==
    {"GetItemByID", "GetItemBySKU", "DeleteItem", "DeactivateItem", "ActivateItem"}

\* C16: on every item endpoint a use-case error of kind NotFound yields
\* status 404, a ValidationError yields 400, and any other error yields 500
\* (stated here for the endpoints that take a path parameter only).
C16_StatusMapping ==
    (Failed(last) /\ last.op \in ParameterEndpoints /\ ~ParameterMissing(last)) =>
        HandlerStatus(last) = IF IsNotFound(last.err) THEN 404
                              ELSE IF IsValidationError(last.err) THEN 400
                              ELSE 500

\* DeleteItem of an id that is not stored failed with the not-found error and
\* the handler wrote 500.
C16_Witness ==
    /\ last.op = "DeleteItem"
    /\ Failed(last)
    /\ IsNotFound(last.err)
    /\ HandlerStatus(last) = 500

Mutators ==
    {"SetName", "SetDescription", "SetPrice", "SetCategory", "SetInventory", "SetStatus",
     "SetImages", "AddImage", "ClearImages"}

\* C18: each entity mutator leaves UpdatedAt strictly greater than its value
\* before the call, whatever the two consecutive readings of the clock are.
C18_UpdatedAtIncreases ==
    last.op \in Mutators => last.resp.updatedAt > last.req.before.updatedAt

\* SetName changed the name of an item within the clock reading of its last
\* update: UpdatedAt is what it was.
C18_Witness ==
    /\ last.op = "SetName"
    /\ last.resp.name # last.req.before.name
    /\ last.resp.updatedAt = last.req.before.updatedAt

\* ------------------------------------------------------------------ C19
\* C19: NewItem fails, returning no item, exactly when the name is empty;
\* otherwise it returns an item with a fresh id, status Draft, inventory 0,
\* no images, no attributes, and CreatedAt and UpdatedAt at the time of the
\* creation.
C19_NewItem ==
    last.op = "NewItem" =>
        /\ IsErr(last.err) <=> last.req.name = <<>>
        /\ IsErr(last.err) => last.resp = NoItem /\ NoEntity
        /\ ~IsErr(last.err) =>
              /\ Entity(last.w) = last.resp
              /\ last.resp.id = nextID - 1
              /\ last.resp.id # BadID
              /\ last.resp.name = last.req.name
              /\ last.resp.status = "StatusDraft"
              /\ last.resp.inventory = 0
              /\ last.resp.images = <<>>
              /\ last.resp.attributes = <<>>
              /\ last.resp.createdAt = last.req.now
              /\ last.resp.updatedAt = last.req.now

\* NewItem built an item whose name is one space.
C19_Witness ==
    /\ last.op = "NewItem"
    /\ last.req.name = <<" ">>
    /\ ~IsErr(last.err)
    /\ Entity(last.w).status = "StatusDraft"

\* ------------------------------------------------------------------ C20
SKUAlphabet == Range(UpperLetters) \cup Digits \cup {"_", "-"}

EmptySKUReason == "SKU cannot be empty"
SKULengthReason == "SKU must be between 3 and 20 characters"
SKUCharacterReason ==
    "SKU can only contain uppercase letters, numbers, hyphens, and underscores"

NewPriceReturned == last # NoCall /\ last.op = "NewPrice"

C21_Truncates ==
    NewPriceReturned =>
        /\ IsErr(last.err) <=> last.req.amount < 0
        /\ ~IsErr(last.err) =>
              /\ last.resp.currency = IF last.req.currency = <<>> THEN USD
                                      ELSE ToUpper(last.req.currency)
              /\ last.resp.amount = last.req.amount \div 10
              /\ Amount(last.resp) = (last.req.amount \div 10) * 10

\* What the code gives: everything claimed but the minor units, which are
\* the truncated amount or one less.
C21_Witness ==
    /\ NewPriceReturned
    /\ last.req.amount = 19990
    /\ ~IsErr(last.err)
    /\ last.resp.amount = 1998

\* ------------------------------------------------------------ claim C22
\* C22: NewInventory(q) fails exactly when q < 0; for non-negative q and n
\* the inventory it returns holds q, CanReserve(n) is q >= n and
\* IsAvailable() is q > 0.
NewInventoryReturned == last # NoCall /\ last.op = "NewInventory"

C22_Inventory ==
    NewInventoryReturned =>
        /\ IsErr(last.err) <=> last.req.quantity < 0
        /\ ~IsErr(last.err) =>
              /\ last.resp.inventory = last.req.quantity
              /\ last.resp.CanReserve <=> last.req.quantity >= last.req.reserve
              /\ last.resp.IsAvailable <=> last.req.quantity > 0

\* The boundary: reserving exactly the quantity held is allowed.
C22_Witness ==
    /\ NewInventoryReturned
    /\ ~IsErr(last.err)
    /\ last.req.quantity = 2
    /\ last.req.reserve = 2
    /\ last.resp.CanReserve
    /\ last.resp.IsAvailable

\* ------------------------------------------------------------ claim C23
\* C23: every Category value the program reaches (returned by NewCategory,
\* held by an item after any calls of SetCategory, written to a row of the
\* store) has a name that is not empty and has no space at either end, and a
\* slug that is the name with each capital lowered and each space replaced
\* by a hyphen, nothing else changed.
WellFormedCategory(name, slug) ==
    /\ name # <<>>
    /\ name[1] \notin Spaces
    /\ name[Len(name)] \notin Spaces
    /\ Len(slug) = Len(name)
    /\ \A i \in 1..Len(name) :
          slug[i] = IF name[i] = " " THEN "-" ELSE ToLowerChar(name[i])

C23_CategoryWellFormed ==
    /\ (last # NoCall /\ last.op = "NewCategory" /\ ~IsErr(last.err))
          => WellFormedCategory(last.resp.name, last.resp.slug)
    /\ \A w \in Workers :
          Entity(w) # NoItem
             => WellFormedCategory(Entity(w).category.name, Entity(w).category.slug)
    /\ \A k \in DOMAIN store :
          WellFormedCategory(store[k].category_name, store[k].category_slug)

\* An item built in one category, moved to " Home Goods " by SetCategory and
\* saved: the row holds the trimmed name and the derived slug.
C23_Witness ==
    /\ last # NoCall
    /\ last.op = "Save"
    /\ ~IsErr(last.err)
    /\ \E k \in DOMAIN store :
          /\ store[k].category_name = <<"H","o","m","e"," ","G","o","o","d","s">>
          /\ store[k].category_slug = <<"h","o","m","e","-","g","o","o","d","s">>

\* ------------------------------------------------------------ claim C24
\* C24: Attributes.Set(k, v) stores v trimmed under k trimmed, replacing the
\* value the key had and leaving the other keys alone; when k trimmed is
\* empty it fails and the contents are unchanged. All() returns a copy: an
\* assignment to the returned map changes nothing of what Get and All return
\* afterwards.
SameReadings(a, b) ==
    /\ AttributesAll(a).data = AttributesAll(b).data
    /\ \A key \in AttributeKeys : AttributesGet(a, key) = AttributesGet(b, key)

C24_Attributes ==
    /\ (last # NoCall /\ last.op = "Attributes.Set") =>
          LET k == TrimSpace(last.req.key)
              v == TrimSpace(last.req.value)
              before == last.req.before
              after == Held(last.w).data
          IN  IF k = <<>>
              THEN IsErr(last.err) /\ after = before
              ELSE /\ ~IsErr(last.err)
                   /\ DOMAIN after = (DOMAIN before) \cup {k}
                   /\ after[k] = v
                   /\ \A x \in (DOMAIN before) \ {k} : after[x] = before[x]
    /\ (last # NoCall /\ last.op = "write") =>
          SameReadings(Held(last.w).data, last.req.before)

\* The caller has changed the map All returned, under a key the Attributes
\* value holds too, and the two now differ there.
C24_Witness ==
    /\ last # NoCall
    /\ last.op = "write"
    /\ last.req.key \in DOMAIN Held(last.w).data
    /\ Held(last.w).data[last.req.key] # Held(last.w).result.data[last.req.key]

\* ------------------------------------------------------------ claim C25
\* C25: StatusFromString succeeds exactly on "active", "inactive", "draft"
\* and "archived" written in any letter case; String() of the status it
\* returns is then the input in lower case, and StatusFromString of that
\* string returns the same status; on every other string it fails with a
\* validation error.
StatusNames ==
    {<<"a","c","t","i","v","e">>, <<"i","n","a","c","t","i","v","e">>,
     <<"d","r","a","f","t">>, <<"a","r","c","h","i","v","e","d">>}

InAnyCase(str, name) ==
    /\ Len(str) = Len(name)
    /\ \A i \in 1..Len(str) : str[i] = name[i] \/ str[i] = ToUpperChar(name[i])

C25_StatusStrings ==
    (last # NoCall /\ last.op = "StatusFromString") =>
        IF \E name \in StatusNames : InAnyCase(last.req.arg, name)
        THEN /\ ~IsErr(last.err)
             /\ last.resp.status \in Statuses
             /\ InAnyCase(last.req.arg, last.resp.String)
             /\ last.resp.String \in StatusNames
             /\ ~IsErr(last.resp.back.err)
             /\ last.resp.back.val = last.resp.status
        ELSE /\ IsErr(last.err)
             /\ IsValidationError(last.err)

C25_Witness ==
    /\ last # NoCall
    /\ last.op = "StatusFromString"
    /\ last.req.arg = <<"I","n","A","c","t","i","v","e">>
    /\ last.resp.status = "StatusInactive"
    /\ last.resp.String = <<"i","n","a","c","t","i","v","e">>

\* ------------------------------------------------------------ claim C26
\* C26: after a successful CreateItem the price stored for the new item is
\* the pricing collaborator's result times the multiplier of the request's
\* category, applied once (electronics 0.95, books 0.90, clothing 0.85), and
\* the collaborator's result itself for any other category. Prices in cents,
\* the collaborator's result in whole units.
CategoryMultiplierPct(category) ==
    CASE category = <<"e","l","e","c","t","r","o","n","i","c","s">> -> 95
      [] category = <<"b","o","o","k","s">> -> 90
      [] category = <<"c","l","o","t","h","i","n","g">> -> 85
      [] OTHER -> 100

CreateItemSucceeded == last # NoCall /\ last.op = "CreateItem" /\ ~IsErr(last.err)

C26_DiscountOnce ==
    CreateItemSucceeded =>
        /\ last.resp.ID \in DOMAIN store
        /\ store[last.resp.ID].price_amount =
              last.req.answers.calc.price * CategoryMultiplierPct(last.req.req.Category)

\* An electronics item priced 2000.00 by the collaborator is stored at
\* 1805.00: 0.95 applied by CreateItem and again by Save.
C26_Witness ==
    /\ CreateItemSucceeded
    /\ last.req.req.Category = Electronics
    /\ last.req.answers.calc.price = 2000
    /\ last.resp.ID \in DOMAIN store
    /\ store[last.resp.ID].price_amount = 180500

\* ------------------------------------------------------ claims C27, C28
\* The case C27 and C28 are about, a mutating use case that returns success,
\* does not occur: the item FindByID hands to the use case has the id NewItem
\* drew for it, not the id of the row, so the UPDATE of Update matches no row
\* and every call that reaches Update fails; the calls that do not reach it
\* fail earlier. No call of the five mutating use cases succeeds, and none
\* changes the store.
MutatingUseCases == {"UpdateInventory", "AddImage", "ActivateItem", "DeactivateItem", "UpdateItem"}

MutationsNeverSucceed ==
    (last # NoCall /\ last.op \in MutatingUseCases) => IsErr(last.err)

MutationsLeaveStore ==
    [][\A w \in Workers : RepositoryUpdate(w) => store' = store]_vars

\* ------------------------------------------------------------ claim C29
\* C29: CreateItem succeeds and stores the item whenever the request passes
\* the validations of the use case (a name of at least 3 characters, a price
\* over 0 and at most 999999, a SKU that NewSKU accepts, a category that is not
\* empty and that the category collaborator accepts), the pricing
\* collaborator returns the requested price, and no row holds the SKU.
PassesUseCaseValidations(c) ==
    /\ Len(c.req.req.Name) >= MinNameLen
    /\ c.req.req.Price > 0
    /\ c.req.req.Price <= MaxUseCasePrice
    /\ ~IsErr(NewSKU(c.req.req.SKU).err)
    /\ c.req.req.Category # <<>>
    /\ c.req.answers.catOK
    /\ c.req.answers.calc.ok
    /\ c.req.answers.calc.price = c.req.req.Price

SKUStored(sku) == \E k \in DOMAIN store : store[k].sku = sku

C29_ValidRequestStored ==
    (last # NoCall /\ last.op = "CreateItem" /\ PassesUseCaseValidations(last)) =>
        /\ SKUStored(NewSKU(last.req.req.SKU).val)
        /\ IsErr(last.err) => Called(last, "Save") /\ IsDuplicateKey(last.err)

\* A request that passes every validation of the use case, for a SKU no row
\* holds, is refused by Save: its price is over the repository's threshold.
C29_Witness ==
    /\ last # NoCall
    /\ last.op = "CreateItem"
    /\ PassesUseCaseValidations(last)
    /\ last.req.req = Request(SkuA, 20000, Toys, 0)
    /\ IsErr(last.err)
    /\ last.err.msg = "item price %.2f exceeds maximum threshold %.2f"
    /\ ~SKUStored(NewSKU(SkuA).val)

\* ------------------------------------------------------------ claim C30
\* C30: for a stored item, in any status, GetItemByID of its id and
\* GetItemBySKU of its SKU return the same response, and the price in it is
\* the stored price. Stated on a GetItemByID that has returned the item of
\* row id, against the GetItemBySKU the next caller would get for the row's
\* SKU.
FoundByID ==
    /\ last # NoCall
    /\ last.op = "GetItemByID"
    /\ ~IsErr(last.err)
    /\ last.req.id.uuid \in DOMAIN store

BySKUOfSameRow == GetItemBySKUResult(store, store[last.req.id.uuid].sku, nextID, clock)

C30_SameResponse ==
    FoundByID =>
        /\ ~IsErr(BySKUOfSameRow.err)
        /\ last.resp.Price = store[last.req.id.uuid].price_amount
        /\ BySKUOfSameRow.resp.Price = store[last.req.id.uuid].price_amount
        /\ last.resp = BySKUOfSameRow.resp

\* A row priced 500.00: GetItemByID answers with price 0, GetItemBySKU with
\* 500.00.
C30_Witness ==
    /\ FoundByID
    /\ store[last.req.id.uuid].price_amount = 50000
    /\ last.resp.Price = 0
    /\ BySKUOfSameRow.resp.Price = 50000

====
